---- MODULE Spec2Model ----
(***************************************************************************)
(* A model of the entity/property layer of craigholland/Core:              *)
(*   core/model/core_model_utils.py     _NestedCounter, _BaseValue         *)
(*   core/model/property/base_property.py   Property                       *)
(*   core/model/property/properties.py  the concrete property classes      *)
(*   core/model/core_model.py           Model                              *)
(*   core/model/key/key_type.py         KeyBase                            *)
(*   core/model/key_bk/key_utils.py     Decoder                            *)
(*                                                                         *)
(* The module holds several specifications over one set of variables; a    *)
(* specification leaves the variables of the other parts at their initial  *)
(* values.                                                                 *)
(*   SpecCounter   any sequence of _NestedCounter.get / increment calls    *)
(*   SpecDeser     any sequence of fields deserialized into a repeated     *)
(*                 StructuredProperty                                      *)
(*   SpecRoundTrip an entity taken through _to_pb and _from_pb             *)
(*   Spec          an entity of a class with one property of any kind,     *)
(*                 set, read, deleted, projected and serialized            *)
(*   SpecClass     properties created and model classes defined from them  *)
(*   SpecHooks     the conversion hooks found along a class's bases        *)
(*   SpecInit      the constructor of a model class and its keywords       *)
(*   SpecQuery     equality, hashing, _to_dict and populate of an entity   *)
(*   SpecInst      entities of a Model or Expando class and their          *)
(*                 property maps                                           *)
(*   SpecAccess    _set_value, _get_value, _get_base_value, _delete_value  *)
(*                 and _prepare_for_put of one property, and the list a    *)
(*                 caller was handed                                       *)
(*   SpecDecoder   the Decoder of key_bk/key_utils.py on a byte buffer     *)
(***************************************************************************)
EXTENDS Integers, Sequences, FiniteSets, TLC

VARIABLES
  ctr,      \* a _NestedCounter tree: path (sequence of names) -> __counter
  ctrOp,    \* the last call on the counter and what it returned
  ent,      \* _values of the entity being deserialized (a Foo)
  wire,     \* the fields handed to _deserialize so far, in order
  dlast,    \* what the last _deserialize call did
  orig,     \* the entity handed to _to_pb: its _key and its _values
  pb,       \* the storage record _to_pb built: key path and property fields
  res,      \* the entity _from_pb built, and whether it equals the original
  cfg,      \* the declaration of property p of the model class M
  m,        \* an entity of class M: its _values, _projection and key
  out,      \* the last call on the entity and how it ended
  props,    \* the property instances created so far, in creation order
  counter,  \* Property.__creation_counter_global
  classes,  \* the model classes defined so far, by name
  inst,     \* an entity of one of the classes: its class, _properties, _values
  clsOut,   \* the last class-level statement and how it ended
  mro,      \* a property class's __mro__ below Property: the hooks of each
  cache,    \* the _find_methods_cache of that class
  conv,     \* the last conversion: the call and the value it returned
  handed,   \* the list the caller got from the last read of a repeated p
  dec,      \* a Decoder: its buffer, its read position idx and its limit
  decOut    \* the last call on the decoder and how it ended

vars == <<ctr, ctrOp, ent, wire, dlast, orig, pb, res, cfg, m, out,
          props, counter, classes, inst, clsOut, mro, cache, conv,
          handed, dec, decOut>>

ctrVars == <<ctr, ctrOp>>
deserVars == <<ent, wire, dlast>>
rtVars == <<orig, pb, res>>
propVars == <<cfg, m, out>>
clsVars == <<props, counter, classes, inst, clsOut>>
hookVars == <<mro, cache, conv>>
decVars == <<dec, decOut>>

(***************************************************************************)
(* Bounds of the model.                                                    *)
(***************************************************************************)
\* the largest value a counter is driven to in SpecCounter
MaxCount == 3
\* the number of fields deserialized in SpecDeser
MaxFields == 6
\* the longest list of sub-entities of an entity of SpecRoundTrip
MaxSubs == 2

(***************************************************************************)
(* Python values.  None is one value of its own; every other value is a    *)
(* record with a tag t and a payload v, so that any two can be compared.   *)
(***************************************************************************)
None == [t |-> "none", v |-> 0]

PyInt(n) == [t |-> "int", v |-> n]

\* a sub-entity: an instance of a model class with the given _values
Entity(vals) == [t |-> "ent", v |-> vals]

\* the empty function: _values = {} of a new entity
NoValues == [n \in {} |-> None]

\* Property.__init__: a property of the given class with the options left
\* at their defaults.  model is the model class of a structured property,
\* keykind the kind= of a KeyProperty, func the function of a
\* ComputedProperty, auto_now and auto_now_add the options of a
\* DateTimeProperty.
Property(kind) ==
  [kind |-> kind, repeated |-> FALSE, required |-> FALSE, default |-> None,
   validator |-> "none", choices |-> None, model |-> "", keykind |-> None,
   func |-> "", auto_now |-> FALSE, auto_now_add |-> FALSE]

\* a Python value of the type t: "bool", "float", "str", "set"
Py(t, v) == [t |-> t, v |-> v]

IntegerProperty == Property("integer")

StructuredProperty(modelclass, rep) ==
  [Property("structured") EXCEPT !.model = modelclass, !.repeated = rep]

SetMax(S) == CHOOSE x \in S : \A y \in S : y <= x

(***************************************************************************)
(* _NestedCounter (core_model_utils.py).  A counter object and all its     *)
(* __sub_counters are one tree; a node is named by the path of keys that   *)
(* leads to it from the root, and the tree is the function from the paths  *)
(* of the nodes that exist to their __counter.  __sub_counters is a        *)
(* defaultdict: reading a missing key creates the node.                    *)
(***************************************************************************)
\* __counter of a node made a parent by __make_parent_node
ParentMark == -1

\* _NestedCounter(): __counter = 0 and no sub counters
NewCounter == (<< >> :> 0)

Prefixes(parts) == {SubSeq(parts, 1, k) : k \in 0..Len(parts)}

IsPrefix(p, q) == Len(p) <= Len(q) /\ SubSeq(q, 1, Len(p)) = p

\* the values of node p's __sub_counters
Children(c, p) == {q \in DOMAIN c : Len(q) = Len(p) + 1 /\ IsPrefix(p, q)}

IsParentNode(c, p) == c[p] = ParentMark

\* the defaultdict lookups of a walk from the root along parts
Touch(c, parts) ==
  [q \in (DOMAIN c) \cup Prefixes(parts) |-> IF q \in DOMAIN c THEN c[q] ELSE 0]

\* get() with no parts on the node p
RECURSIVE NodeGet(_, _)
NodeGet(c, p) ==
  IF IsParentNode(c, p)
  THEN SetMax({NodeGet(c, q) : q \in Children(c, p)})
  ELSE c[p]

\* max() of an empty sequence raises ValueError
RECURSIVE NodeGetFails(_, _)
NodeGetFails(c, p) ==
  /\ IsParentNode(c, p)
  /\ \/ Children(c, p) = {}
     \/ \E q \in Children(c, p) : NodeGetFails(c, q)

\* the nodes whose __counter a _set() on node p assigns: p itself when it is
\* no parent node, else what _set() on each child assigns
RECURSIVE SetTargets(_, _)
SetTargets(c, p) ==
  IF IsParentNode(c, p)
  THEN UNION {SetTargets(c, q) : q \in Children(c, p)}
  ELSE {p}

\* a _set() that stops at the children of the node
NestedCounter_set_shallow(c, p, value) ==
  [q \in DOMAIN c |->
     IF q \in Children(c, p) /\ ~IsParentNode(c, q) THEN value ELSE c[q]]

NestedCounter_set(c, p, value) ==
  [q \in DOMAIN c |-> IF q \in SetTargets(c, p) THEN value ELSE c[q]]

\* get(parts) on the root: the value returned and the tree afterwards
NestedCounter_get(c, parts) ==
  LET t == Touch(c, parts)
  IN  [val |-> NodeGet(t, parts), c |-> t]

\* increment(parts) on the root: every node passed on the way is made a
\* parent node, then the node at parts is advanced
NestedCounter_increment(c, parts) ==
  LET t  == Touch(c, parts)
      c1 == [q \in DOMAIN t |->
               IF q \in Prefixes(parts) /\ q # parts THEN ParentMark ELSE t[q]]
  IN  IF IsParentNode(c1, parts)
      THEN LET value == NodeGet(c1, parts) + 1
           IN  [val |-> value, c |-> NestedCounter_set(c1, parts, value)]
      ELSE [val |-> c1[parts] + 1,
            c   |-> [c1 EXCEPT ![parts] = c1[parts] + 1]]

(***************************************************************************)
(* SpecCounter: a counter driven by any sequence of get and increment      *)
(* calls on the paths of the structure of the _NestedCounter docstring     *)
(* (a, a.b, a.b.c, a.b.d) and on the root itself.                          *)
(***************************************************************************)
CtrPaths == {<< >>, <<"a">>, <<"a", "b">>, <<"a", "b", "c">>, <<"a", "b", "d">>,
             <<"a", "e">>}

NoDelivery == [idx |-> -1, appended |-> FALSE]

\* no entity, no storage record, no result
NoEntity == [key |-> None, vals |-> NoValues]

NoPb == [key |-> << >>, props |-> << >>]

NoResult == [phase |-> "none", key |-> None, vals |-> NoValues,
             toSetKey |-> TRUE, fromSetKey |-> TRUE, equal |-> FALSE]

NoOp == [kind |-> "none", path |-> << >>, ret |-> 0, wasParent |-> FALSE,
         oldGet |-> 0]

CtrIdle == ctr = NewCounter /\ ctrOp = NoOp

DeserIdle == ent = NoValues /\ wire = << >> /\ dlast = NoDelivery

RtIdle == orig = NoEntity /\ pb = NoPb /\ res = NoResult

\* M() of a class whose p is a plain IntegerProperty, and no call yet
NoCall == [op |-> "none", name |-> "", arg |-> None, err |-> "", ret |-> None]

NewEntity == [vals |-> NoValues, proj |-> {}, key |-> None]

PropIdle == cfg = Property("integer") /\ m = NewEntity /\ out = NoCall

\* no property instance created and no model class defined
ClsIdle ==
  /\ props = << >>
  /\ counter = 0
  /\ classes = [c \in {} |-> 0]
  /\ inst = None
  /\ clsOut = [op |-> "none", err |-> ""]

\* no property class under conversion
HookIdle == mro = << >> /\ cache = << >> /\ conv = << >>

\* the caller holds no list: has tells whether it holds one, alias whether
\* that list is the object the entity stores for p, v what it contains
NoList == [has |-> FALSE, alias |-> FALSE, v |-> << >>]

\* no list held by the caller, no decoder
RestIdle ==
  /\ handed = NoList
  /\ dec = [buf |-> << >>, idx |-> 0, limit |-> 0]
  /\ decOut = [op |-> "none", err |-> "", ret |-> 0]

CtrInit ==
  CtrIdle /\ DeserIdle /\ RtIdle /\ PropIdle /\ ClsIdle /\ HookIdle /\ RestIdle

CtrGet(p) ==
  LET r == NestedCounter_get(ctr, p)
  IN  /\ ~NodeGetFails(Touch(ctr, p), p)
      /\ ctr' = r.c
      /\ ctrOp' = [kind |-> "get", path |-> p, ret |-> r.val,
                   wasParent |-> IsParentNode(r.c, p), oldGet |-> r.val]
      /\ UNCHANGED <<deserVars, rtVars, propVars, clsVars, hookVars, handed, decVars>>

CtrIncrement(p) ==
  LET t == Touch(ctr, p)
      r == NestedCounter_increment(ctr, p)
  IN  /\ ~NodeGetFails(t, p)
      /\ r.val <= MaxCount
      /\ ctr' = r.c
      /\ ctrOp' = [kind |-> "increment", path |-> p, ret |-> r.val,
                   wasParent |-> IsParentNode(t, p), oldGet |-> NodeGet(t, p)]
      /\ UNCHANGED <<deserVars, rtVars, propVars, clsVars, hookVars, handed, decVars>>

CtrNext ==
  \/ \E p \in CtrPaths : CtrGet(p)
  \/ \E p \in CtrPaths : CtrIncrement(p)

SpecCounter == CtrInit /\ [][CtrNext]_vars

\* the nodes below p (p included) that have no sub counters
TreeLeaves(c, p) == {q \in DOMAIN c : IsPrefix(p, q) /\ Children(c, q) = {}}

\* C3 (first half): in every state every parent node has a child, so that
\* get() on it returns a value, and that value is the maximum of the values
\* get() returns on its children; a get() call on a parent node returned it.
C3_GetIsMax ==
  /\ \A p \in DOMAIN ctr :
       IsParentNode(ctr, p) =>
         /\ Children(ctr, p) # {}
         /\ \A q \in Children(ctr, p) : NodeGet(ctr, q) <= NodeGet(ctr, p)
         /\ \E q \in Children(ctr, p) : NodeGet(ctr, q) = NodeGet(ctr, p)
  /\ (ctrOp.kind = "get" /\ ctrOp.wasParent) =>
       ctrOp.ret = SetMax({NodeGet(ctr, q) : q \in Children(ctr, ctrOp.path)})

Schema ==
  [Foo |-> [a |-> StructuredProperty("A", TRUE), n |-> IntegerProperty],
   A   |-> [b |-> StructuredProperty("B", FALSE), e |-> IntegerProperty],
   B   |-> [c |-> IntegerProperty, d |-> IntegerProperty],
   M   |-> [p |-> cfg, q |-> [IntegerProperty EXCEPT !.required = TRUE]]]

\* _BaseValue(b_val): the marker of a value in storage form
BaseValue(x) == [t |-> "base", v |-> x]

\* a repeated property's stored value
PyList(seq) == [t |-> "list", v |-> seq]

\* b_val of a stored value once it is in storage form (None stays None); for
\* integers and sub-entities _to_base_type keeps the value
BVal(x) == IF x.t = "base" THEN x.v ELSE x

Property_has_value(vals, name) == name \in DOMAIN vals

\* a lookup that gives the default whatever is stored
Property_retrieve_value_default(vals, name, default) == default

Property_retrieve_value(vals, name, default) ==
  IF name \in DOMAIN vals THEN vals[name] ELSE default

Property_store_value(vals, name, value) ==
  [n \in (DOMAIN vals) \cup {name} |-> IF n = name THEN value ELSE vals[n]]

\* a _has_value that never finds a value
HasValue_never(cls, vals, name, rest) == FALSE

\* prop._has_value(entity, rest) for the property name of class cls
RECURSIVE HasValue(_, _, _, _)
HasValue(cls, vals, name, rest) ==
  LET prop == Schema[cls][name]
      ok   == Property_has_value(vals, name)
  IN  IF prop.kind = "structured" /\ ok /\ rest # << >>
      THEN LET subent == BVal(vals[name])
           IN  IF subent = None THEN TRUE
               ELSE IF Head(rest) \notin DOMAIN Schema[prop.model] THEN FALSE
               ELSE HasValue(prop.model, subent.v, Head(rest), Tail(rest))
      ELSE ok

\* IntegerProperty._db_get_value: None unless the field holds an integer
DbGetValue(f) == IF f.val.t = "int" THEN f.val ELSE None

\* Property._deserialize (the base class's, for a leaf property)
Property_deserialize(prop, vals, name, f) ==
  LET got == DbGetValue(f)
      val == IF got = None THEN None ELSE BaseValue(got)
  IN  IF prop.repeated
      THEN IF Property_has_value(vals, name)
           THEN Property_store_value(vals, name, PyList(Append(vals[name].v, val)))
           ELSE Property_store_value(vals, name, PyList(<<val>>))
      ELSE Property_store_value(vals, name, val)

\* a loop that finds no sub-entity, so that every field is appended
FindSubentity_append(model, lst, next, rest, path, idx, cnt) ==
  [found |-> FALSE, idx |-> idx, cnt |-> cnt]

\* the while loop of the repeated branch: from the counter's index on, the
\* first sub-entity that has no value for the property yet
RECURSIVE FindSubentity(_, _, _, _, _, _, _)
FindSubentity(model, lst, next, rest, path, idx, cnt) ==
  IF idx < Len(lst)
  THEN IF ~HasValue(model, BVal(lst[idx + 1]).v, next, rest)
       THEN [found |-> TRUE, idx |-> idx, cnt |-> cnt]
       ELSE LET i == NestedCounter_increment(cnt, path)
            IN  FindSubentity(model, lst, next, rest, path, i.val, i.c)
  ELSE [found |-> FALSE, idx |-> idx, cnt |-> cnt]

\* prop._deserialize(entity, p, depth) for the property name of class cls on
\* an entity with _values vals and _subentity_counter cnt.  The fields name
\* declared properties only.  idx is the index of the repeated sub-entity
\* that received the field (-1: none), appended whether it was a new one.
RECURSIVE Deserialize(_, _, _, _, _, _)
Deserialize(cls, name, vals, cnt, f, depth) ==
  LET prop  == Schema[cls][name]
      parts == f.name
  IN  IF prop.kind # "structured"
      THEN [vals |-> Property_deserialize(prop, vals, name, f), cnt |-> cnt,
            err |-> "", idx |-> -1, appended |-> FALSE]
      ELSE IF ~prop.repeated
      THEN LET stored == Property_retrieve_value(vals, name, None)
               vals1  == IF stored = None
                         THEN Property_store_value(vals, name,
                                                   BaseValue(Entity(NoValues)))
                         ELSE vals
               subentity == BVal(vals1[name])
           IN  IF Len(parts) <= depth
               THEN \* _get_property_for gives None: kill the sub-entity
                    [vals |-> Property_store_value(vals1, name, None),
                     cnt |-> cnt, err |-> "", idx |-> -1, appended |-> FALSE]
               ELSE LET r == Deserialize(prop.model, parts[depth + 1],
                                         subentity.v, cnt, f, depth + 1)
                        sub2 == IF vals1[name].t = "base"
                                THEN BaseValue(Entity(r.vals))
                                ELSE Entity(r.vals)
                    IN  [vals |-> Property_store_value(vals1, name, sub2),
                         cnt |-> r.cnt, err |-> r.err, idx |-> -1,
                         appended |-> FALSE]
      ELSE IF Len(parts) <= depth
      THEN [vals |-> vals, cnt |-> cnt, err |-> "RuntimeError", idx |-> -1,
            appended |-> FALSE]
      ELSE LET next == parts[depth + 1]
               rest == SubSeq(parts, depth + 2, Len(parts))
               counter_path == SubSeq(parts, depth, Len(parts))
               g    == NestedCounter_get(cnt, counter_path)
               lst  == IF Property_has_value(vals, name) THEN vals[name].v
                       ELSE << >>
               sc   == IF Property_has_value(vals, name)
                       THEN FindSubentity(prop.model, lst, next, rest,
                                          counter_path, g.val, g.c)
                       ELSE [found |-> FALSE, idx |-> g.val, cnt |-> g.c]
               cnt2 == NestedCounter_increment(sc.cnt, counter_path).c
               lst2 == IF sc.found THEN lst
                       ELSE Append(lst, BaseValue(Entity(NoValues)))
               k    == IF sc.found THEN sc.idx + 1 ELSE Len(lst2)
               r    == Deserialize(prop.model, next, BVal(lst2[k]).v, cnt2, f,
                                   depth + 1)
               lst3 == [lst2 EXCEPT ![k] = BaseValue(Entity(r.vals))]
           IN  [vals |-> Property_store_value(vals, name, PyList(lst3)),
                cnt |-> r.cnt, err |-> r.err, idx |-> k - 1,
                appended |-> ~sc.found]

\* one turn of the loop of Model._from_pb: _get_property_for(p) at depth 0,
\* then prop._deserialize(ent, p)
FromPbField(cls, vals, cnt, f) == Deserialize(cls, f.name[1], vals, cnt, f, 1)

(***************************************************************************)
(* SpecDeser: a new Foo receives any sequence of at most MaxFields fields  *)
(* of its repeated structured property a.  A field with a value carries    *)
(* its position in the sequence as the value, so that every value is told  *)
(* from every other; a.b and a.b.d also arrive without a value (None).     *)
(***************************************************************************)
DeserFields(stamp) ==
  {[name |-> <<"a", "b", "c">>, val |-> PyInt(stamp)],
   [name |-> <<"a", "b", "d">>, val |-> PyInt(stamp)],
   [name |-> <<"a", "e">>, val |-> PyInt(stamp)],
   [name |-> <<"a", "b", "d">>, val |-> None],
   [name |-> <<"a", "b">>, val |-> None]}

\* whether the entity holds a value at the path rel of property names
RECURSIVE Holds(_, _)
Holds(vals, rel) ==
  /\ rel # << >>
  /\ Head(rel) \in DOMAIN vals
  /\ \/ Len(rel) = 1
     \/ /\ BVal(vals[Head(rel)]).t = "ent"
        /\ Holds(BVal(vals[Head(rel)]).v, Tail(rel))

\* the sub-entities of the repeated property a, as a sequence of _values
SubEntities(vals) ==
  IF "a" \in DOMAIN vals
  THEN [i \in 1..Len(vals["a"].v) |-> BVal(vals["a"].v[i]).v]
  ELSE << >>

DeserInit ==
  CtrIdle /\ DeserIdle /\ RtIdle /\ PropIdle /\ ClsIdle /\ HookIdle /\ RestIdle

DeserializeField(f) ==
  LET r == FromPbField("Foo", ent, ctr, f)
  IN  /\ Len(wire) < MaxFields
      /\ ent' = r.vals
      /\ ctr' = r.cnt
      /\ wire' = Append(wire, f)
      /\ dlast' = [idx |-> r.idx, appended |-> r.appended]
      /\ UNCHANGED <<ctrOp, rtVars, propVars, clsVars, hookVars, handed, decVars>>

DeserNext == \E f \in DeserFields(Len(wire) + 1) : DeserializeField(f)

SpecDeser == DeserInit /\ [][DeserNext]_vars

\* the stored value at the path rel of property names (None where a
\* sub-entity on the way is None)
RECURSIVE ValueAt(_, _)
ValueAt(vals, rel) ==
  IF Len(rel) = 1 THEN vals[Head(rel)]
  ELSE IF BVal(vals[Head(rel)]) = None THEN None
  ELSE ValueAt(BVal(vals[Head(rel)]).v, Tail(rel))

\* the fields arrive leaf by leaf: blocks of n fields, one block per leaf,
\* every field with a value
LeafMajor(w, n) ==
  /\ Len(w) > 0
  /\ Len(w) % n = 0
  /\ \A i \in 1..Len(w) : w[i].val # None
  /\ \A i, j \in 1..Len(w) :
       (w[i].name = w[j].name) <=> ((i - 1) \div n = (j - 1) \div n)

DocstringFields ==
  <<[name |-> <<"a", "b", "c">>, val |-> PyInt(1)],
    [name |-> <<"a", "b", "c">>, val |-> PyInt(2)],
    [name |-> <<"a", "b", "d">>, val |-> PyInt(3)],
    [name |-> <<"a", "b", "d">>, val |-> PyInt(4)]>>

DocstringEntity(c, d) ==
  BaseValue(Entity([b |-> BaseValue(Entity([c |-> BaseValue(PyInt(c)),
                                            d |-> BaseValue(PyInt(d))]))]))

\* C1: the fields a.b.c=1, a.b.c=2, a.b.d=3, a.b.d=4 give exactly the two
\* sub-entities {b: {c: 1, d: 3}} and {b: {c: 2, d: 4}}; and whenever the
\* fields have arrived leaf by leaf, n values per leaf, there are exactly n
\* sub-entities and the k-th value of every leaf is in sub-entity k.
C1_LeafMajorDeserialize ==
  /\ wire = DocstringFields =>
       ent = [a |-> PyList(<<DocstringEntity(1, 3), DocstringEntity(2, 4)>>)]
  /\ \A n \in 1..MaxFields :
       LeafMajor(wire, n) =>
         /\ Len(SubEntities(ent)) = n
         /\ \A i \in 1..Len(wire) :
              LET k == ((i - 1) % n) + 1
                  rel == Tail(wire[i].name)
              IN  /\ Holds(SubEntities(ent)[k], rel)
                  /\ ValueAt(SubEntities(ent)[k], rel) = BaseValue(wire[i].val)

\* the fields of the docstring followed by the two values of a.e
C1_Witness ==
  /\ Len(wire) = 6
  /\ SubSeq(wire, 1, 4) = DocstringFields
  /\ LeafMajor(wire, 2)
  /\ Len(SubEntities(ent)) = 2

LeafPaths == {<<"e">>, <<"b">>, <<"b", "c">>, <<"b", "d">>}

\* C4: a field is delivered to a sub-entity that held no value at the
\* field's path (one that was there and lacked it, or a new empty one at the
\* end of the list), and no call changes a value that a sub-entity held at
\* a leaf path, nor a sub-entity that was None.
C4_NeverOverwrite ==
  [][LET old == SubEntities(ent)
         new == SubEntities(ent')
         f   == wire'[Len(wire')]
         k   == dlast'.idx + 1
     IN  /\ Len(new) >= Len(old)
         /\ k >= 1 =>
              /\ k <= Len(new)
              /\ dlast'.appended => k = Len(old) + 1 /\ Len(new) = k
              /\ ~dlast'.appended => k <= Len(old) /\ Len(new) = Len(old)
                                       /\ ~Holds(old[k], Tail(f.name))
              /\ Holds(new[k], Tail(f.name))
         /\ \A i \in 1..Len(old) : \A rel \in LeafPaths :
              Holds(old[i], rel) =>
                /\ Holds(new[i], rel)
                /\ ValueAt(old[i], rel).t # "base" \/ rel # <<"b">> =>
                     ValueAt(new[i], rel) = ValueAt(old[i], rel)
    ]_<<ent, wire, dlast>>

\* a field arrived for a leaf that the first sub-entity already held, and a
\* second sub-entity took it
C4_Witness ==
  /\ Len(wire) >= 2
  /\ dlast.idx = 1
  /\ Holds(SubEntities(ent)[1], Tail(wire[Len(wire)].name))
  /\ \E i \in 1..(Len(wire) - 1) : wire[i].name = wire[Len(wire)].name

(***************************************************************************)
(* _to_pb and _from_pb.  The storage record pb is the key path, a sequence *)
(* of (kind, id) elements, and the sequence of property fields.  The key   *)
(* class (core.model.core_key.Key) is not among the files of the           *)
(* repository: a key is modelled as the path it wraps, two keys being      *)
(* equal when their paths are.                                             *)
(***************************************************************************)
\* sorted(self._properties.iteritems())
PropOrder == [Foo |-> <<"a", "n">>, A |-> <<"b", "e">>, B |-> <<"c", "d">>,
              M |-> <<"p", "q">>]

PropNames(cls) == DOMAIN Schema[cls]

\* Key(reference=...) and key.reference()
KeyFromReference(path) == [t |-> "key", v |-> path]

KeyReference(key) == key.v

\* key.id(): the id of the last element of the path
KeyId(key) == key.v[Len(key.v)].id

\* the truth value Python gives a value in a condition
PyTruthy(x) ==
  CASE x.t = "none" -> FALSE
    [] x.t = "int"  -> x.v # 0
    [] x.t = "str"  -> x.v # ""
    [] x.t = "bool" -> x.v
    [] x.t = "float" -> x.v # 0
    [] x.t = "list" -> x.v # << >>
    [] OTHER -> TRUE

\* Model._key_to_pb: an entity without a key writes the one element
\* (kind, None)
KeyToPb(kind, key) ==
  IF key = None THEN <<[kind |-> kind, id |-> None]>> ELSE KeyReference(key)

\* the key part of Model._from_pb
KeyFromPb(path, set_key) ==
  LET key == IF Len(path) > 0 THEN KeyFromReference(path) ELSE None
  IN  IF key # None /\ (set_key \/ PyTruthy(KeyId(key)) \/ Len(path) > 1)
      THEN key ELSE None

\* Property._get_base_value_unwrapped_as_list
UnwrappedAsList(prop, vals, name) ==
  IF prop.repeated
  THEN IF Property_has_value(vals, name)
       THEN [i \in 1..Len(vals[name].v) |-> BVal(vals[name].v[i])]
       ELSE << >>
  ELSE <<BVal(Property_retrieve_value(vals, name, prop.default))>>

\* Property._serialize (the base class's): one field per value; a value of
\* None writes a field without value; nothing is written for a name that
\* is not in a projection that is not empty
Property_serialize(prop, vals, name, prefix, projection) ==
  LET values == UnwrappedAsList(prop, vals, name)
  IN  IF projection # {} /\ Append(prefix, name) \notin projection
      THEN << >>
      ELSE [i \in 1..Len(values) |-> [name |-> Append(prefix, name),
                                      val |-> values[i]]]

\* prop._serialize(entity, pb, prefix) for the i-th and later properties of
\* an entity of class cls, in sorted order; StructuredProperty._serialize for
\* the j-th and later values of a structured property
RECURSIVE SerializeEntity(_, _, _, _, _)
RECURSIVE SerializeStructured(_, _, _, _, _, _)
SerializeStructured(cls, vals, name, prefix, projection, j) ==
  LET prop   == Schema[cls][name]
      values == UnwrappedAsList(prop, vals, name)
  IN  IF j > Len(values) THEN << >>
      ELSE (IF values[j] # None
            THEN SerializeEntity(prop.model, values[j].v, Append(prefix, name),
                                 projection, 1)
            ELSE Property_serialize(prop, vals, name, prefix, projection))
           \o SerializeStructured(cls, vals, name, prefix, projection, j + 1)

SerializeEntity(cls, vals, prefix, projection, i) ==
  IF i > Len(PropOrder[cls]) THEN << >>
  ELSE LET name == PropOrder[cls][i]
       IN  (IF Schema[cls][name].kind = "structured"
            THEN SerializeStructured(cls, vals, name, prefix, projection, 1)
            ELSE Property_serialize(Schema[cls][name], vals, name, prefix,
                                    projection))
           \o SerializeEntity(cls, vals, prefix, projection, i + 1)

\* _values after _apply_to_values has run on every property of the entity
\* and of its sub-entities: with wrap, _opt_call_to_base_type has wrapped
\* each value in a _BaseValue (serializing); without, _opt_call_from_base_type
\* has unwrapped it (reading).  A repeated property that had no value holds
\* the empty list, and a property without value whose default is not None
\* holds the wrapped default once it has been serialized.
RECURSIVE AppliedToValues(_, _, _)
AppliedToValues(cls, vals, wrap) ==
  LET one(prop, x) ==
        LET y == IF BVal(x).t = "ent"
                 THEN Entity(AppliedToValues(prop.model, BVal(x).v, wrap))
                 ELSE BVal(x)
        IN  IF y = None THEN None ELSE IF wrap THEN BaseValue(y) ELSE y
      names == (DOMAIN vals)
               \cup {n \in PropNames(cls) : Schema[cls][n].repeated}
               \cup {n \in PropNames(cls) : wrap /\ Schema[cls][n].default # None}
  IN  [n \in names |->
         IF Schema[cls][n].repeated
         THEN IF n \in DOMAIN vals
              THEN PyList([i \in 1..Len(vals[n].v) |-> one(Schema[cls][n], vals[n].v[i])])
              ELSE PyList(<< >>)
         ELSE one(Schema[cls][n],
                  Property_retrieve_value(vals, n, Schema[cls][n].default))]

\* what _get_value returns for every property of the entity, sub-entities
\* being compared by their own values: the two sides of Model._equivalent
RECURSIVE UserValues(_, _)
UserValues(cls, vals) ==
  LET one(prop, x) ==
        IF BVal(x).t = "ent" THEN Entity(UserValues(prop.model, BVal(x).v))
        ELSE BVal(x)
  IN  [n \in PropNames(cls) |->
         IF Schema[cls][n].repeated
         THEN IF n \in DOMAIN vals
              THEN PyList([i \in 1..Len(vals[n].v) |-> one(Schema[cls][n], vals[n].v[i])])
              ELSE PyList(<< >>)
         ELSE IF n \in DOMAIN vals THEN one(Schema[cls][n], vals[n]) ELSE None]

\* Model.__eq__ of two entities of class cls with empty projections
ModelEq(cls, key1, vals1, key2, vals2) ==
  /\ key1 = key2
  /\ UserValues(cls, vals1) = UserValues(cls, vals2)

\* the loop of Model._from_pb over the fields from the i-th on
RECURSIVE FromPbFields(_, _, _, _, _)
FromPbFields(cls, fields, i, vals, cnt) ==
  IF i > Len(fields) THEN vals
  ELSE LET r == FromPbField(cls, vals, cnt, fields[i])
       IN  FromPbFields(cls, fields, i + 1, r.vals, r.cnt)

(***************************************************************************)
(* Properties of every kind on an entity of class M (base_property.py,     *)
(* properties.py).  An entity e is its _values, its _projection (a set of  *)
(* names, each the sequence of its dotted parts) and its key.  An          *)
(* operation gives the error raised ("" when none) and what it leaves.     *)
(***************************************************************************)
\* key.kind()
KeyKind(key) == key.v[Len(key.v)].kind

\* the number a bool, int or float stands for
Num(x) == IF x.t = "bool" THEN (IF x.v THEN 1 ELSE 0) ELSE x.v

\* Python's ==: numbers compare by value whatever their type, lists item
\* by item
PyEq(x, y) ==
  LET eq(a, b) == IF {a.t, b.t} \subseteq {"bool", "int", "float"}
                  THEN Num(a) = Num(b) ELSE a = b
  IN  IF x.t = "list" /\ y.t = "list"
      THEN /\ Len(x.v) = Len(y.v)
           /\ \A i \in 1..Len(x.v) : eq(x.v[i], y.v[i])
      ELSE eq(x, y)

\* an idempotent user validator that returns a replacement value: abs for
\* numbers, lower() for strings
Norm(x) ==
  CASE x.t \in {"int", "float"} -> [x EXCEPT !.v = IF @ < 0 THEN -@ ELSE @]
    [] x.t = "str" -> [x EXCEPT !.v = IF @ = "A" THEN "a" ELSE @]
    [] OTHER -> x

\* _validate of the property's class: the error it raises, else the value
\* that goes on
Validate(prop, v) ==
  LET bad   == [err |-> "BadValueError", val |-> v]
      ok(x) == [err |-> "", val |-> x]
  IN  CASE prop.kind = "integer" ->
             IF v.t \in {"int", "bool"} THEN ok(PyInt(Num(v))) ELSE bad
        [] prop.kind = "float" ->
             IF v.t \in {"int", "bool", "float"} THEN ok(Py("float", Num(v)))
             ELSE bad
        [] prop.kind = "boolean" -> IF v.t = "bool" THEN ok(v) ELSE bad
        [] prop.kind = "string" -> IF v.t = "str" THEN ok(v) ELSE bad
        [] prop.kind = "key" ->
             IF /\ v.t = "key"
                /\ PyTruthy(KeyId(v))
                /\ prop.keykind = None \/ prop.keykind = Py("str", KeyKind(v))
             THEN ok(v) ELSE bad
        [] prop.kind = "structured" -> IF v.t = "ent" THEN ok(v) ELSE bad
        [] prop.kind = "datetime" -> IF v.t = "datetime" THEN ok(v) ELSE bad
        [] OTHER -> ok(v)

\* a _do_validate that checks the choices before it calls the validator
DoValidate_choices_first(prop, v) ==
  LET r == Validate(prop, v)
  IN  IF r.err # "" THEN r
      ELSE IF prop.choices # None /\ ~\E c \in prop.choices.v : PyEq(c, r.val)
      THEN [err |-> "BadValueError", val |-> v]
      ELSE [err |-> "",
            val |-> IF prop.validator = "norm" THEN Norm(r.val) ELSE r.val]

\* Property._do_validate
DoValidate(prop, v) ==
  LET r == Validate(prop, v)
      w == IF prop.validator = "norm" THEN Norm(r.val) ELSE r.val
  IN  IF r.err # "" THEN r
      ELSE IF prop.choices # None /\ ~\E c \in prop.choices.v : PyEq(c, w)
      THEN [err |-> "BadValueError", val |-> v]
      ELSE [err |-> "", val |-> w]

\* a _set_value that stores what it is given
SetValue_unchecked(prop, e, name, v) ==
  [err |-> "", vals |-> Property_store_value(e.vals, name, v)]

\* a _set_value that stores the value and then refuses it
SetValue_partial(prop, e, name, v) ==
  [err |-> "BadValueError", vals |-> Property_store_value(e.vals, name, v)]

\* Property._set_value, ComputedProperty._set_value
SetValue(prop, e, name, v) ==
  LET fail(x)  == [err |-> x, vals |-> e.vals]
      store(x) == [err |-> "", vals |-> Property_store_value(e.vals, name, x)]
  IN  IF prop.kind = "computed" THEN fail("ComputedPropertyError")
      ELSE IF e.proj # {} THEN fail("ReadonlyPropertyError")
      ELSE IF prop.repeated
      THEN IF v.t # "list" THEN fail("BadValueError")
           ELSE LET rs == [i \in 1..Len(v.v) |-> DoValidate(prop, v.v[i])]
                IN  IF \E i \in 1..Len(v.v) : rs[i].err # ""
                    THEN fail("BadValueError")
                    ELSE store(PyList([i \in 1..Len(v.v) |-> rs[i].val]))
      ELSE IF v = None THEN store(None)
      ELSE LET r == DoValidate(prop, v)
           IN  IF r.err # "" THEN fail(r.err) ELSE store(r.val)

\* a _get_value that reads whatever the projection
Property_get_value_unchecked(prop, e, name) ==
  [err |-> "", vals |-> e.vals,
   ret |-> IF prop.repeated /\ name \notin DOMAIN e.vals THEN PyList(<< >>)
           ELSE Property_retrieve_value(e.vals, name, prop.default)]

\* Property._get_value: the projection check, then _get_user_value, which
\* stores back what it unwrapped
Property_get_value(prop, e, name) ==
  LET value == Property_retrieve_value(e.vals, name, prop.default)
      give(x, vals) == [err |-> "", ret |-> x, vals |-> vals]
  IN  IF e.proj # {} /\ <<name>> \notin e.proj
      THEN [err |-> "UnprojectedPropertyError", ret |-> None, vals |-> e.vals]
      ELSE IF prop.repeated
      THEN LET lst == IF value = None THEN PyList(<< >>)
                      ELSE PyList([i \in 1..Len(value.v) |-> BVal(value.v[i])])
           IN  give(lst, Property_store_value(e.vals, name, lst))
      ELSE IF value.t = "base"
      THEN give(BVal(value), Property_store_value(e.vals, name, BVal(value)))
      ELSE give(value, e.vals)

\* a _get_value that gives what is stored, whatever the property class
GetValue_stored(e, name) ==
  Property_get_value_unchecked(Schema["M"][name], e, name)

\* prop._get_value(entity) for the property name of class M:
\* StructuredProperty._get_value and ComputedProperty._get_value override
\* the base class's.  The function of a computed property is
\* lambda self: 5 ([5] when repeated) or lambda self: self.q
GetValue(e, name) ==
  LET prop == Schema["M"][name]
      base == Property_get_value(prop, e, name)
      user == Property_get_value(prop, [e EXCEPT !.proj = {}], name)
      f    == IF prop.func = "q"
              THEN Property_get_value(Schema["M"]["q"], e, "q")
              ELSE [err |-> "", vals |-> e.vals,
                    ret |-> IF prop.repeated THEN PyList(<<PyInt(5)>>)
                            ELSE PyInt(5)]
  IN  CASE prop.kind = "structured" ->
             IF user.ret = None /\ e.proj # {} THEN base ELSE user
        [] prop.kind = "computed" ->
             IF <<name>> \in e.proj THEN base
             ELSE IF f.err # "" THEN f
             ELSE [f EXCEPT !.vals = Property_store_value(@, name, f.ret)]
        [] OTHER -> base

\* Property._delete_value, ComputedProperty._delete_value
DeleteValue(prop, e, name) ==
  IF prop.kind = "computed"
  THEN [err |-> "ComputedPropertyError", vals |-> e.vals]
  ELSE [err |-> "", vals |-> [n \in (DOMAIN e.vals) \ {name} |-> e.vals[n]]]

\* ModelKey._set_value with _validate_key: the key of an entity of class M
ModelKey_set_value(e, value) ==
  IF value = None THEN [err |-> "", key |-> None]
  ELSE IF value.t # "key" THEN [err |-> "BadValueError", key |-> e.key]
  ELSE IF KeyKind(value) # "M" THEN [err |-> "KindError", key |-> e.key]
  ELSE [err |-> "", key |-> value]

\* an _is_initialized that finds every property initialized
IsInitialized_always(e, name) == [err |-> "", ok |-> TRUE, vals |-> e.vals]

\* Property._is_initialized
IsInitialized(e, name) ==
  LET prop == Schema["M"][name]
      g    == GetValue(e, name)
  IN  IF ~prop.required THEN [err |-> "", ok |-> TRUE, vals |-> e.vals]
      ELSE IF ~(Property_has_value(e.vals, name) \/ prop.default # None)
      THEN [err |-> "", ok |-> FALSE, vals |-> e.vals]
      ELSE [err |-> g.err, ok |-> g.ret # None, vals |-> g.vals]

\* Model._to_pb: _check_initialized unless allow_partial, then the key and
\* every property
ToPb(e, allow_partial) ==
  LET fail(err, vals) == [err |-> err, ret |-> None, vals |-> vals]
      emit(vals) ==
        [err |-> "",
         ret |-> Py("pb", [key |-> KeyToPb("M", e.key),
                           props |-> SerializeEntity("M", vals, << >>,
                                                     e.proj, 1)]),
         vals |-> AppliedToValues("M", vals, TRUE)]
      second(i1, i2) ==
        IF i2.err # "" THEN fail(i2.err, i2.vals)
        ELSE IF ~i1.ok \/ ~i2.ok THEN fail("BadValueError", i2.vals)
        ELSE emit(i2.vals)
      first(i1) ==
        IF i1.err # "" THEN fail(i1.err, i1.vals)
        ELSE second(i1, IsInitialized([e EXCEPT !.vals = i1.vals], "p"))
  IN  IF allow_partial THEN emit(e.vals)
      ELSE first(IsInitialized(e, "q"))

\* KeyBase.isInitialized: id is the one required attribute
KeyBase_isInitialized(key) == PyTruthy(KeyId(key))

(***************************************************************************)
(* SpecRoundTrip: a Foo built through its constructor and attribute        *)
(* assignment (user values, nothing wrapped), with no key, a complete key  *)
(* or an incomplete one, is taken through _to_pb, the record through       *)
(* _from_pb, and the two entities are compared with ==.                    *)
(***************************************************************************)
\* the values an integer property is given
IntChoices == {None, PyInt(1)}

BValues == UNION {[D -> IntChoices] : D \in SUBSET {"c", "d"}}

AValues ==
  UNION {{f \in [D -> IntChoices \cup {Entity(b) : b \in BValues}] :
            \A n \in D : /\ n = "b" => f[n].t \in {"none", "ent"}
                         /\ n = "e" => f[n].t \in {"none", "int"}} :
         D \in SUBSET {"b", "e"}}

ALists ==
  UNION {[1..k -> {Entity(a) : a \in AValues}] : k \in 0..MaxSubs}

FooValues ==
  UNION {{f \in [D -> IntChoices \cup {PyList(l) : l \in ALists}] :
            \A n \in D : /\ n = "a" => f[n].t = "list"
                         /\ n = "n" => f[n].t \in {"none", "int"}} :
         D \in SUBSET {"a", "n"}}

CompleteKey == KeyFromReference(<<[kind |-> "Foo", id |-> PyInt(7)]>>)

IncompleteKey == KeyFromReference(<<[kind |-> "Foo", id |-> None]>>)

RtInit ==
  /\ CtrIdle
  /\ DeserIdle
  /\ PropIdle
  /\ ClsIdle
  /\ HookIdle
  /\ RestIdle
  /\ pb = NoPb
  /\ res = NoResult
  /\ \E k \in {None, CompleteKey, IncompleteKey}, v \in FooValues :
       orig = [key |-> k, vals |-> v]

\* pb = orig._to_pb(set_key=set_key)
RtToPb(set_key) ==
  /\ res.phase = "none"
  /\ pb' = [key |-> IF set_key THEN KeyToPb("Foo", orig.key) ELSE << >>,
            props |-> SerializeEntity("Foo", orig.vals, << >>, {}, 1)]
  /\ orig' = [orig EXCEPT !.vals = AppliedToValues("Foo", @, TRUE)]
  /\ res' = [res EXCEPT !.phase = "pb", !.toSetKey = set_key]
  /\ UNCHANGED <<ctrVars, deserVars, propVars, clsVars, hookVars, handed, decVars>>

\* Foo._from_pb(pb, set_key=set_key)
RtFromPb(set_key) ==
  /\ res.phase = "pb"
  /\ res' = [res EXCEPT !.phase = "read", !.fromSetKey = set_key,
                        !.key = KeyFromPb(pb.key, set_key),
                        !.vals = FromPbFields("Foo", pb.props, 1, NoValues,
                                              NewCounter)]
  /\ UNCHANGED <<orig, pb, ctrVars, deserVars, propVars, clsVars, hookVars, handed, decVars>>

\* orig == the entity read back; when the keys are equal _equivalent reads
\* every property of both entities with _get_value
RtCompare ==
  /\ res.phase = "read"
  /\ res' = [res EXCEPT !.phase = "compared",
                        !.equal = ModelEq("Foo", orig.key, orig.vals,
                                          res.key, res.vals),
                        !.vals = IF orig.key = res.key
                                 THEN AppliedToValues("Foo", @, FALSE) ELSE @]
  /\ orig' = [orig EXCEPT !.vals = IF orig.key = res.key
                                   THEN AppliedToValues("Foo", @, FALSE) ELSE @]
  /\ UNCHANGED <<pb, ctrVars, deserVars, propVars, clsVars, hookVars, handed, decVars>>

RtNext ==
  \/ \E set_key \in BOOLEAN : RtToPb(set_key)
  \/ \E set_key \in BOOLEAN : RtFromPb(set_key)
  \/ RtCompare

SpecRoundTrip == RtInit /\ [][RtNext]_vars

\* C2: after _to_pb and _from_pb, both called with their default
\* arguments, the entity read back compares equal to the original.
C2_RoundTripEqual ==
  (res.phase = "compared" /\ res.toSetKey /\ res.fromSetKey) => res.equal

\* the round trip of an entity that has a key: the properties and the key
\* come back equal
C2_RoundTripWithKey ==
  (res.phase = "compared" /\ res.toSetKey /\ res.fromSetKey /\ orig.key # None)
    => res.equal

\* the properties come back equal whatever the key
C2_RoundTripValues ==
  res.phase \in {"read", "compared"} =>
    UserValues("Foo", res.vals) = UserValues("Foo", orig.vals)

(***************************************************************************)
(* Spec: class M(Model) has the property p, declared in any of the ways    *)
(* of PropConfigs, and q = IntegerProperty(required=True).  A new M()      *)
(* takes any sequence of attribute assignments, reads and deletions,       *)
(* populate calls, key assignments and _to_pb calls; its projection is set *)
(* once, as the constructor and _from_pb do after the values are in.       *)
(***************************************************************************)
PropConfigs ==
  {[IntegerProperty EXCEPT !.required = r, !.default = d, !.validator = w] :
     r \in BOOLEAN, d \in {None, PyInt(1)}, w \in {"none", "keep", "norm"}}
  \cup {[IntegerProperty EXCEPT !.choices = Py("set", {PyInt(1)}),
                                 !.validator = w] :
          w \in {"none", "keep", "norm"}}
  \cup {[IntegerProperty EXCEPT !.choices = Py("set", {PyInt(-1)}),
                                 !.validator = "norm"]}
  \cup {[IntegerProperty EXCEPT !.repeated = TRUE, !.validator = w] :
          w \in {"none", "norm"}}
  \cup {[Property(k) EXCEPT !.required = r] :
          k \in {"float", "boolean"}, r \in BOOLEAN}
  \cup {[Property("string") EXCEPT !.validator = w] : w \in {"none", "norm"}}
  \cup {[Property("key") EXCEPT !.keykind = k] : k \in {None, Py("str", "Foo")}}
  \cup {[StructuredProperty("B", FALSE) EXCEPT !.required = r] : r \in BOOLEAN}
  \cup {StructuredProperty("B", TRUE)}
  \cup {[Property("computed") EXCEPT !.func = "const", !.repeated = r] :
          r \in BOOLEAN}
  \cup {[Property("computed") EXCEPT !.func = "q"]}

\* the keys handed to the entity and to a KeyProperty
Keys ==
  {CompleteKey, IncompleteKey,
   KeyFromReference(<<[kind |-> "Foo", id |-> PyInt(0)]>>),
   KeyFromReference(<<[kind |-> "M", id |-> PyInt(7)]>>)}

\* the values assigned to a property
InputValues(name) ==
  IF name = "q" THEN {None, PyInt(1)}
  ELSE {None, PyInt(1), PyInt(-1), Py("bool", TRUE), Py("str", "a"),
        Py("str", "A"), PyList(<< >>), PyList(<<PyInt(-1)>>),
        PyList(<<PyInt(1), Py("str", "a")>>),
        Entity([c |-> PyInt(1)]), PyList(<<Entity([c |-> PyInt(1)])>>)}
       \cup Keys

Init ==
  /\ CtrIdle
  /\ DeserIdle
  /\ RtIdle
  /\ ClsIdle
  /\ HookIdle
  /\ RestIdle
  /\ cfg \in PropConfigs
  /\ m = NewEntity
  /\ out = NoCall

Result(op, name, arg, r) ==
  [op |-> op, name |-> name, arg |-> arg, err |-> r.err, ret |-> r.ret]

\* entity.<name> = v, and entity.populate(<name>=v)
MSetValue(op, name, v) ==
  LET r == SetValue(Schema["M"][name], m, name, v)
  IN  /\ m' = [m EXCEPT !.vals = r.vals]
      /\ out' = Result(op, name, v, [err |-> r.err, ret |-> None])
      /\ UNCHANGED cfg

\* entity.<name>
MGetValue(name) ==
  LET r == GetValue(m, name)
  IN  /\ m' = [m EXCEPT !.vals = r.vals]
      /\ out' = Result("get", name, None, r)
      /\ UNCHANGED cfg

\* del entity.<name>
MDeleteValue(name) ==
  LET r == DeleteValue(Schema["M"][name], m, name)
  IN  /\ m' = [m EXCEPT !.vals = r.vals]
      /\ out' = Result("delete", name, None, [err |-> r.err, ret |-> None])
      /\ UNCHANGED cfg

\* entity.key = k, entity.populate(key=k), and del entity.key (k = None)
MSetKey(op, k) ==
  LET r == ModelKey_set_value(m, k)
  IN  /\ m' = [m EXCEPT !.key = r.key]
      /\ out' = Result(op, "key", k, [err |-> r.err, ret |-> None])
      /\ UNCHANGED cfg

\* entity._set_projection(projection), once
MSetProjection(projection) ==
  /\ m.proj = {}
  /\ projection # {}
  /\ m' = [m EXCEPT !.proj = projection]
  /\ out' = Result("project", "", None, [err |-> "", ret |-> None])
  /\ UNCHANGED cfg

\* entity._to_pb(allow_partial=allow_partial)
MToPb(allow_partial) ==
  LET r == ToPb(m, allow_partial)
  IN  /\ m' = [m EXCEPT !.vals = r.vals]
      /\ out' = Result("to_pb", "", Py("bool", allow_partial), r)
      /\ UNCHANGED cfg

\* key.isInitialized
MIsInitialized(key) ==
  /\ out' = Result("isInitialized", "", key,
                   [err |-> "", ret |-> Py("bool", KeyBase_isInitialized(key))])
  /\ UNCHANGED <<cfg, m>>

Next ==
  /\ UNCHANGED <<ctrVars, deserVars, rtVars, clsVars, hookVars, handed, decVars>>
  /\ \/ \E op \in {"set", "populate"}, name \in {"p", "q"} :
          \E v \in InputValues(name) : MSetValue(op, name, v)
     \/ \E name \in {"p", "q"} : MGetValue(name)
     \/ \E name \in {"p", "q"} : MDeleteValue(name)
     \/ \E op \in {"set", "populate"}, k \in Keys \cup {None, PyInt(1)} :
          MSetKey(op, k)
     \/ MSetKey("delete", None)
     \/ \E projection \in SUBSET {<<"p">>, <<"q">>} : MSetProjection(projection)
     \/ \E allow_partial \in BOOLEAN : MToPb(allow_partial)
     \/ \E key \in Keys : MIsInitialized(key)

Spec == Init /\ [][Next]_vars

ScalarKinds == {"integer", "float", "boolean", "string", "key"}

\* the step is an assignment to the property name (directly or by populate)
Assigns(name) == out'.op \in {"set", "populate"} /\ out'.name = name

\* C5 as stated: on a non-projected entity, a _get_value that follows an
\* accepted _set_value of v on a scalar property returns a value equal to v.
C5_GetReturnsSetValue ==
  [][(/\ out.op \in {"set", "populate"} /\ out.name = "p" /\ out.err = ""
      /\ cfg.kind \in ScalarKinds /\ ~cfg.repeated
      /\ out'.op = "get" /\ out'.name = "p")
     => (out'.err = "" /\ PyEq(out'.ret, out.arg))]_vars

\* C5: the _get_value that follows an accepted _set_value of v returns the
\* value validation left: equal to v, also for the lax values that
\* _validate converts (True or 1 for an integer, 1 for a float), unless the
\* user validator returned a replacement, which is then what is returned.
C5_GetReturnsValidatedValue ==
  [][(/\ out.op \in {"set", "populate"} /\ out.name = "p" /\ out.err = ""
      /\ cfg.kind \in ScalarKinds /\ ~cfg.repeated
      /\ out'.op = "get" /\ out'.name = "p")
     => /\ out'.err = ""
        /\ PyEq(out'.ret, IF cfg.validator = "norm" THEN Norm(out.arg)
                          ELSE out.arg)
        /\ m'.vals = m.vals]_vars

\* a float property read after it was set to the integer 1
C5_Witness ==
  /\ out.op = "get" /\ out.name = "p" /\ out.err = ""
  /\ cfg.kind = "float"
  /\ out.ret = Py("float", 1)
  /\ m.vals["p"] = Py("float", 1)

\* a required property that holds no value to serialize: set to None, or
\* unset without a default
Uninitialized(e, name) ==
  /\ Schema["M"][name].required
  /\ IF name \in DOMAIN e.vals THEN BVal(e.vals[name]) = None
     ELSE Schema["M"][name].default = None

\* C6 as stated: with a required property uninitialized, _to_pb without
\* allow_partial fails with BadValueError and emits nothing; with every
\* required property initialized it succeeds; with allow_partial it
\* succeeds.
C6_ToPbChecksRequired ==
  [][out'.op = "to_pb" =>
       IF out'.arg.v THEN out'.err = "" /\ out'.ret.t = "pb"
       ELSE IF \E name \in {"p", "q"} : Uninitialized(m, name)
       THEN out'.err = "BadValueError" /\ out'.ret = None
       ELSE out'.err = "" /\ out'.ret.t = "pb"]_vars

\* C6: the same on an entity whose projection is empty; on a projection
\* entity the call without allow_partial fails as well when a required
\* property is uninitialized, with BadValueError or
\* UnprojectedPropertyError, and with allow_partial it succeeds.
C6_ToPbChecksRequiredUnprojected ==
  [][out'.op = "to_pb" =>
       IF out'.arg.v THEN out'.err = "" /\ out'.ret.t = "pb"
       ELSE IF \E name \in {"p", "q"} : Uninitialized(m, name)
       THEN /\ out'.ret = None
            /\ out'.err \in {"BadValueError", "UnprojectedPropertyError"}
            /\ m.proj = {} => out'.err = "BadValueError"
       ELSE m.proj = {} => out'.err = "" /\ out'.ret.t = "pb"]_vars

\* _to_pb succeeded on an entity whose required p had to be set first
C6_Witness ==
  /\ out.op = "to_pb" /\ ~out.arg.v /\ out.err = ""
  /\ cfg.required /\ cfg.default = None
  /\ Len(out.ret.v.props) = 2

\* the property p is repeated and no ComputedProperty
RepeatedStored == cfg.repeated /\ cfg.kind # "computed"

\* C7 as stated: _set_value of a repeated property with a value that is
\* no list fails with BadValueError, and _get_value of a repeated property
\* returns a list.
C7_RepeatedIsList ==
  [][/\ (Assigns("p") /\ cfg.repeated /\ out'.arg.t # "list")
          => out'.err = "BadValueError"
     /\ (out'.op = "get" /\ out'.name = "p" /\ cfg.repeated /\ m.proj = {})
          => out'.err = "" /\ out'.ret.t = "list"]_vars

\* C7: for a repeated property that is no ComputedProperty, on an entity
\* whose projection is empty, _set_value with a value that is no list fails
\* with BadValueError and stores nothing; and _get_value, whenever it
\* returns, returns a list (on an entity without projection it always
\* returns).
C7_RepeatedIsListUnprojected ==
  [][/\ (Assigns("p") /\ RepeatedStored /\ out'.arg.t # "list" /\ m.proj = {})
          => out'.err = "BadValueError" /\ m'.vals = m.vals
     /\ (out'.op = "get" /\ out'.name = "p" /\ RepeatedStored)
          => /\ out'.err = "" => out'.ret.t = "list"
             /\ m.proj = {} => out'.err = ""]_vars

\* a repeated property that was read gave the empty list, then refused an
\* integer
C7_Witness ==
  /\ out.op = "set" /\ out.name = "p" /\ out.arg = PyInt(1)
  /\ out.err = "BadValueError"
  /\ cfg.repeated
  /\ m.proj = {}
  /\ "p" \in DOMAIN m.vals /\ m.vals["p"] = PyList(<< >>)

\* C8: on an entity whose projection is not empty every write (assigning a
\* property or the key, deleting a property value or the key, populate)
\* raises and leaves the values and the key as they were.
C8_ProjectionReadOnly ==
  [][(m.proj # {} /\ out'.op \in {"set", "populate", "delete"})
       => (out'.err # "" /\ m'.vals = m.vals /\ m'.key = m.key)]_vars

\* C9 as stated: on an entity with a projection, reading a property that
\* is not in it raises UnprojectedPropertyError.
C9_UnprojectedRaises ==
  [][(out'.op = "get" /\ m.proj # {} /\ <<out'.name>> \notin m.proj)
       => out'.err = "UnprojectedPropertyError"]_vars

\* C9: reading a property that is not in the projection raises
\* UnprojectedPropertyError for a scalar or repeated property of a class
\* that keeps Property._get_value; a structured property raises it only
\* when it holds no sub-entity (a repeated one never); a computed property
\* is computed, and raises only if its function reads an unprojected
\* property.
C9_UnprojectedRaisesUnlessOverridden ==
  [][(out'.op = "get" /\ m.proj # {} /\ <<out'.name>> \notin m.proj)
       => LET prop == Schema["M"][out'.name]
              held == Property_retrieve_value(m.vals, out'.name, prop.default)
              raises == out'.err = "UnprojectedPropertyError"
          IN  /\ out'.err \in {"", "UnprojectedPropertyError"}
              /\ prop.kind \notin {"structured", "computed"} => raises
              /\ prop.kind = "structured"
                   => (raises <=> (~prop.repeated /\ held = None))
              /\ prop.kind = "computed"
                   => (raises <=> (prop.func = "q" /\ <<"q">> \notin m.proj))
     ]_vars

\* a structured property outside the projection gave its sub-entity
C9_Witness ==
  /\ out.op = "get" /\ out.name = "p" /\ out.err = ""
  /\ m.proj = {<<"q">>}
  /\ cfg.kind = "structured"
  /\ out.ret.t = "ent"

\* C10: a key whose id is None reports isInitialized False, and a
\* KeyProperty of an entity without projection refuses it with
\* BadValueError and stores nothing; a key whose id is not None reports
\* True and is accepted when its kind is the one the property asks for.
C10_KeyCompleteness ==
  [][/\ out'.op = "isInitialized"
          => out'.ret = Py("bool", KeyId(out'.arg) # None)
     /\ (Assigns("p") /\ cfg.kind = "key" /\ out'.arg.t = "key" /\ m.proj = {})
          => IF KeyId(out'.arg) = None
             THEN out'.err = "BadValueError" /\ m'.vals = m.vals
             ELSE IF cfg.keykind \in {None, Py("str", KeyKind(out'.arg))}
             THEN out'.err = "" /\ m'.vals["p"] = out'.arg
             ELSE out'.err = "BadValueError" /\ m'.vals = m.vals]_vars

(***************************************************************************)
(* SpecClass: property instances are created and model classes defined     *)
(* from them (base_property.py Property.__init__, properties.py            *)
(* StructuredProperty.__init__, core_model.py MetaModel and                *)
(* Model._fix_up_properties).  A property instance is named by its place   *)
(* in props; a class is its class dictionary (attrs: attribute name ->     *)
(* property instance), its _properties (name -> property instance), its    *)
(* _has_repeated and whether it derives from Expando.                      *)
(***************************************************************************)
\* the number of Property constructor calls
MaxProps == 3

ClassNames == {"A", "B"}

AttrNames == {"x", "y"}

\* the class statements tried: the name and the base class
ClassDefs == {<<"A", "Model">>, <<"A", "Expando">>, <<"B", "Model">>}

\* the constructor calls tried: kind, repeated, model class, name
PropertyArgs ==
  {<<"integer", FALSE, "", "">>, <<"integer", TRUE, "", "">>,
   <<"integer", FALSE, "", "z">>}
  \cup {<<"structured", r, c, "">> : r \in BOOLEAN, c \in ClassNames}

\* the orders in which an iteration over the set S can deliver it
Orders(S) ==
  {s \in [1..Cardinality(S) -> S] :
     \A i, j \in 1..Cardinality(S) : s[i] = s[j] => i = j}

\* a StructuredProperty.__init__ without the test of _has_repeated
NewProperty_unchecked(kind, repeated, modelclass, name) ==
  /\ counter < MaxProps
  /\ kind = "structured" <=> modelclass \in DOMAIN classes
  /\ counter' = counter + 1
  /\ props' = Append(props,
         [kind |-> kind, repeated |-> repeated, model |-> modelclass,
          name |-> name, code_name |-> "", creation_counter |-> counter + 1])
  /\ clsOut' = [op |-> "property", err |-> ""]
  /\ UNCHANGED <<classes, inst>>

\* IntegerProperty(name, repeated=...) and
\* StructuredProperty(modelclass, name, repeated=...); name "" is None.
\* Property.__init__ takes the creation counter before
\* StructuredProperty.__init__ tests the model class.
NewProperty(kind, repeated, modelclass, name) ==
  /\ counter < MaxProps
  /\ kind = "structured" <=> modelclass \in DOMAIN classes
  /\ counter' = counter + 1
  /\ IF kind = "structured" /\ repeated /\ classes[modelclass].has_repeated
     THEN /\ props' = props
          /\ clsOut' = [op |-> "property", err |-> "TypeError"]
     ELSE /\ props' = Append(props,
                 [kind |-> kind, repeated |-> repeated, model |-> modelclass,
                  name |-> name, code_name |-> "",
                  creation_counter |-> counter + 1])
          /\ clsOut' = [op |-> "property", err |-> ""]
  /\ UNCHANGED <<classes, inst>>

\* Property._fix_up
Property_fix_up(prop, code_name) ==
  [prop EXCEPT !.code_name = code_name,
               !.name = IF @ = "" THEN code_name ELSE @]

\* the loop of Model._fix_up_properties over the attributes in the order
\* the set delivers them, from the k-th on; acc holds the property
\* instances, cls._properties and cls._has_repeated so far
RECURSIVE FixUpProperties(_, _, _, _)
FixUpProperties(attrs, order, k, acc) ==
  IF k > Len(order) THEN acc
  ELSE LET i    == attrs[order[k]]
           attr == Property_fix_up(acc.props[i], order[k])
           rep  == \/ attr.repeated
                   \/ /\ attr.kind = "structured"
                      /\ classes[attr.model].has_repeated
       IN  FixUpProperties(attrs, order, k + 1,
             [props |-> [acc.props EXCEPT ![i] = attr],
              properties |-> (attr.name :> i) @@ acc.properties,
              has_repeated |-> acc.has_repeated \/ rep])

\* class <cname>(<base>): <attribute> = <property instance> ...
DefineClass(cname, base, attrs, order) ==
  LET r == FixUpProperties(attrs, order, 1,
             [props |-> props, properties |-> [n \in {} |-> 0],
              has_repeated |-> FALSE])
  IN  /\ cname \notin DOMAIN classes
      /\ props' = r.props
      /\ classes' = (cname :> [attrs |-> attrs, properties |-> r.properties,
                               has_repeated |-> r.has_repeated,
                               expando |-> base = "Expando"]) @@ classes
      /\ clsOut' = [op |-> "class", err |-> ""]
      /\ UNCHANGED <<counter, inst>>

ClsNext ==
  /\ UNCHANGED <<ctrVars, deserVars, rtVars, propVars, hookVars, handed, decVars>>
  /\ \/ \E a \in PropertyArgs : NewProperty(a[1], a[2], a[3], a[4])
     \/ \E c \in ClassDefs, D \in SUBSET AttrNames :
          \E attrs \in [D -> 1..Len(props)], order \in Orders(D) :
            DefineClass(c[1], c[2], attrs, order)

SpecClass == CtrInit /\ [][ClsNext]_vars

\* C11: every property instance is bound to at most one attribute of one
\* class (any second binding having been refused by the class definition).
C11_OneAttributePerProperty ==
  \A i \in 1..Len(props) :
    Cardinality({ca \in ClassNames \X AttrNames :
                   /\ ca[1] \in DOMAIN classes
                   /\ ca[2] \in DOMAIN classes[ca[1]].attrs
                   /\ classes[ca[1]].attrs[ca[2]] = i}) <= 1

(***************************************************************************)
(* SpecHooks: the composable conversion hooks of a property class          *)
(* (base_property.py Property._find_methods, _apply_list,                  *)
(* _call_to_base_type, _call_from_base_type).  mro lists the classes of    *)
(* the property class's __mro__ below Property, the most derived class     *)
(* first, each as the set of hook names its __dict__ defines.  A method is *)
(* the pair <<class, name>>.  A _to_base_type or _from_base_type hook      *)
(* returns a new value, a _validate hook returns None; a value is the      *)
(* sequence of the hooks that produced it from the value first given.      *)
(***************************************************************************)
\* the longest chain of property classes
MaxChain == 3

Reverse(s) == [k \in 1..Len(s) |-> s[Len(s) - k + 1]]

\* a _find_methods that never reverses
FindMethods_unreversed(chain, c, names, reverse) ==
  LET n == Len(names)
      all == [k \in 1..(Len(chain) * n) |->
                <<((k - 1) \div n) + 1, names[((k - 1) % n) + 1]>>]
      methods == SelectSeq(all, LAMBDA q : q[2] \in chain[q[1]])
  IN  IF names \in DOMAIN c THEN [methods |-> c[names], cache |-> c]
      ELSE [methods |-> methods, cache |-> (names :> methods) @@ c]

\* Property._find_methods: the methods named, class by class along the
\* __mro__, or the list the cache holds for these names
FindMethods(chain, c, names, reverse) ==
  LET n == Len(names)
      all == [k \in 1..(Len(chain) * n) |->
                <<((k - 1) \div n) + 1, names[((k - 1) % n) + 1]>>]
      found == SelectSeq(all, LAMBDA q : q[2] \in chain[q[1]])
      methods == IF reverse THEN Reverse(found) ELSE found
  IN  IF names \in DOMAIN c THEN [methods |-> c[names], cache |-> c]
      ELSE [methods |-> methods, cache |-> (names :> methods) @@ c]

\* Property._apply_list: call(value), from the k-th method on
RECURSIVE ApplyList(_, _, _)
ApplyList(methods, k, value) ==
  IF k > Len(methods) THEN value
  ELSE LET keeps    == methods[k][2] = "_validate"  \* the hook returns None
           newvalue == Append(value, methods[k])
       IN  ApplyList(methods, k + 1, IF keeps THEN value ELSE newvalue)

\* Property._call_to_base_type
CallToBaseType ==
  LET r == FindMethods(mro, cache, <<"_validate", "_to_base_type">>, FALSE)
  IN  /\ cache' = r.cache
      /\ conv' = [op |-> "to", value |-> ApplyList(r.methods, 1, << >>)]
      /\ UNCHANGED mro

\* Property._call_from_base_type
CallFromBaseType ==
  LET r == FindMethods(mro, cache, <<"_from_base_type">>, TRUE)
  IN  /\ cache' = r.cache
      /\ conv' = [op |-> "from", value |-> ApplyList(r.methods, 1, << >>)]
      /\ UNCHANGED mro

HookInit ==
  /\ CtrIdle /\ DeserIdle /\ RtIdle /\ PropIdle /\ ClsIdle /\ RestIdle
  /\ \E n \in 1..MaxChain :
       mro \in [1..n -> SUBSET {"_validate", "_to_base_type",
                                "_from_base_type"}]
  /\ cache = << >>
  /\ conv = << >>

HookNext ==
  /\ UNCHANGED <<ctrVars, deserVars, rtVars, propVars, clsVars, handed, decVars>>
  /\ (CallToBaseType \/ CallFromBaseType)

SpecHooks == HookInit /\ [][HookNext]_vars

\* the hooks called name that the classes of mro define, most derived
\* class first
Defining(name) == FindMethods(mro, << >>, <<name>>, FALSE).methods

\* C12 as stated: converting to storage form applies the _to_base_type
\* hooks base class first and most derived class last, and converting from
\* storage form applies the _from_base_type hooks most derived class first.
C12_BaseFirstToStorage ==
  /\ conv # << >> /\ conv.op = "to"
       => conv.value = Reverse(Defining("_to_base_type"))
  /\ conv # << >> /\ conv.op = "from"
       => conv.value = Defining("_from_base_type")

\* C12: converting to storage form applies the _to_base_type hooks in
\* method resolution order, most derived class first and base class last,
\* and converting from storage form applies the _from_base_type hooks in
\* the exact reverse of that order, base class first.
C12_DerivedFirstToStorage ==
  /\ conv # << >> /\ conv.op = "to"
       => conv.value = Defining("_to_base_type")
  /\ conv # << >> /\ conv.op = "from"
       => conv.value = Reverse(Defining("_from_base_type"))

\* three classes that all define both hooks, converted from storage form
\* after a conversion to it
C12_Witness ==
  /\ Len(mro) = 3
  /\ \A i \in 1..3 : {"_to_base_type", "_from_base_type"} \subseteq mro[i]
  /\ conv # << >> /\ conv.op = "from"
  /\ <<"_validate", "_to_base_type">> \in DOMAIN cache
  /\ conv.value = <<<<3, "_from_base_type">>, <<2, "_from_base_type">>,
                    <<1, "_from_base_type">>>>

(***************************************************************************)
(* Further properties of Spec.                                             *)
(***************************************************************************)
\* C13: a non-None value assigned to a scalar property goes through
\* _validate, then the user validator, then the choices check, the choices
\* being tested against what the validator returned: it is stored as that
\* value when _validate accepts it and the transformed value is a choice,
\* and refused with BadValueError otherwise; a validator that returns None
\* leaves the validated value as it is.
C13_ValidatorBeforeChoices ==
  [][(/\ Assigns("p") /\ m.proj = {} /\ out'.arg # None
      /\ cfg.kind \in ScalarKinds /\ ~cfg.repeated)
     => LET r == Validate(cfg, out'.arg)
            w == IF cfg.validator = "norm" THEN Norm(r.val) ELSE r.val
        IN  IF /\ r.err = ""
               /\ cfg.choices # None => \E c \in cfg.choices.v : PyEq(c, w)
            THEN out'.err = "" /\ m'.vals["p"] = w
            ELSE out'.err = "BadValueError" /\ m'.vals = m.vals]_vars

\* -1, no choice itself, was accepted and stored as the choice 1 that the
\* validator made of it
C13_Witness ==
  /\ cfg.choices = Py("set", {PyInt(1)}) /\ cfg.validator = "norm"
  /\ out.op = "set" /\ out.name = "p" /\ out.arg = PyInt(-1) /\ out.err = ""
  /\ m.vals["p"] = PyInt(1)

\* C14: an assignment that raises, to a property or to the key, leaves the
\* entity's values and key exactly as they were.
C14_FailedSetChangesNothing ==
  [][(out'.op \in {"set", "populate"} /\ out'.err # "")
       => (m'.vals = m.vals /\ m'.key = m.key)]_vars

\* a list whose second item fails validation was refused and the list
\* stored before is still there
C14_Witness ==
  /\ cfg.kind = "integer" /\ cfg.repeated
  /\ out.op = "set" /\ out.name = "p" /\ out.err = "BadValueError"
  /\ out.arg = PyList(<<PyInt(1), Py("str", "a")>>)
  /\ "p" \in DOMAIN m.vals /\ m.vals["p"] = PyList(<<PyInt(-1)>>)

\* C20: assigning or deleting a ComputedProperty raises
\* ComputedPropertyError and leaves the entity as it was, and reading one
\* that is not in the entity's projection returns its function applied to
\* the entity's current values.
C20_ComputedReadOnlyAndFresh ==
  [][cfg.kind = "computed" /\ out'.name = "p" =>
       /\ out'.op \in {"set", "populate", "delete"}
            => out'.err = "ComputedPropertyError" /\ m' = m
       /\ (out'.op = "get" /\ <<"p">> \notin m.proj)
            => /\ out'.err = ""
               /\ out'.ret =
                    IF cfg.func = "q"
                    THEN BVal(Property_retrieve_value(m.vals, "q", None))
                    ELSE IF cfg.repeated THEN PyList(<<PyInt(5)>>)
                    ELSE PyInt(5)]_vars

\* the function of p reads q: p was read as None, q set to 1, and p read
\* again gave 1
C20_Witness ==
  /\ cfg.kind = "computed" /\ cfg.func = "q"
  /\ out.op = "get" /\ out.name = "p" /\ out.ret = PyInt(1)
  /\ m.vals["q"] = PyInt(1) /\ m.vals["p"] = PyInt(1)

(***************************************************************************)
(* SpecInit: the constructor of class M (core_model.py Model.__init__,     *)
(* Model.__get_arg) called with any set of the keywords below.             *)
(***************************************************************************)
\* the keyword arguments tried and the value each is given
Keywords ==
  [key    |-> KeyFromReference(<<[kind |-> "M", id |-> PyInt(7)]>>),
   key_bk |-> KeyFromReference(<<[kind |-> "M", id |-> PyInt(8)]>>),
   id     |-> PyInt(5),
   parent |-> CompleteKey,
   p      |-> PyInt(1)]

\* Key(kind, id, parent=parent)
KeyFromPairs(kind, id, parent) ==
  KeyFromReference((IF parent = None THEN << >> ELSE KeyReference(parent))
                   \o <<[kind |-> kind, id |-> id]>>)

\* Model.__init__(**kwds) for class M: the error raised, else the entity
Model_init(kwds) ==
  LET get_arg(kwd) == IF kwd \in DOMAIN kwds THEN kwds[kwd] ELSE None
      key    == get_arg("key_bk")
      id     == get_arg("id")
      parent == get_arg("parent")
      fail(err) == [err |-> err, ret |-> None, e |-> NewEntity]
      attrs(e) ==     \* _set_attributes with what is left of kwds
        LET k == IF "key" \in DOMAIN kwds
                 THEN ModelKey_set_value(e, kwds["key"])
                 ELSE [err |-> "", key |-> e.key]
            v == IF "p" \in DOMAIN kwds
                 THEN SetValue(Schema["M"]["p"], e, "p", kwds["p"])
                 ELSE [err |-> "", vals |-> e.vals]
        IN  IF k.err # "" THEN fail(k.err)
            ELSE IF v.err # "" THEN fail(v.err)
            ELSE [err |-> "", ret |-> None,
                  e |-> [e EXCEPT !.key = k.key, !.vals = v.vals]]
      keyed(k) == IF k.err # "" THEN fail(k.err)
                  ELSE attrs([NewEntity EXCEPT !.key = k.key])
  IN  IF key # None
      THEN IF id # None \/ parent # None THEN fail("BadArgumentError")
           ELSE keyed(ModelKey_set_value(NewEntity, key))
      ELSE IF id # None \/ parent # None
      THEN keyed(ModelKey_set_value(NewEntity, KeyFromPairs("M", id, parent)))
      ELSE attrs(NewEntity)

\* entity = M(**kwds); when the constructor raises there is no new entity
MInit(kwds) ==
  LET r == Model_init(kwds)
  IN  /\ m' = IF r.err = "" THEN r.e ELSE m
      /\ out' = Result("init", "", kwds, r)
      /\ UNCHANGED cfg

InitNext ==
  /\ UNCHANGED <<ctrVars, deserVars, rtVars, clsVars, hookVars, handed, decVars>>
  /\ \E D \in SUBSET DOMAIN Keywords : MInit([n \in D |-> Keywords[n]])

SpecInit == Init /\ [][InitNext]_vars

\* C15: a constructor call with key= together with id= or parent= raises
\* BadArgumentError and gives no entity; with key= alone the entity's key
\* is that key; with id= or parent= and no key= the key is built from them
\* and the kind of the class.
C15_KeyExcludesIdParent ==
  [][(out'.op = "init" /\ "key_bk" \notin DOMAIN out'.arg)
     => LET kwds == out'.arg
            has(n) == n \in DOMAIN kwds
            arg(n) == IF has(n) THEN kwds[n] ELSE None
        IN  IF has("key") /\ (has("id") \/ has("parent"))
            THEN out'.err = "BadArgumentError" /\ m' = m
            ELSE IF has("key") THEN out'.err = "" => m'.key = kwds["key"]
            ELSE IF has("id") \/ has("parent")
            THEN out'.err = ""
                   => m'.key = KeyFromPairs("M", arg("id"), arg("parent"))
            ELSE out'.err = "" => m'.key = None]_vars

(***************************************************************************)
(* SpecQuery: an entity of class M is set up by assignments and a          *)
(* projection, and is then compared, hashed and turned into a dict         *)
(* (core_model.py Model.__eq__, _equivalent, __hash__, _to_dict).          *)
(***************************************************************************)
\* the entities e is compared with, each with its class: e itself, an
\* entity of another class N, and entities of class M that differ from e
\* in the key, in the projection, in q, or in holding no p
Others(e) ==
  LET q == BVal(Property_retrieve_value(e.vals, "q", None))
  IN  {[cls |-> "M", e |-> e], [cls |-> "N", e |-> e],
       [cls |-> "M",
        e |-> [e EXCEPT !.key = IF @ = None THEN Keywords["key"] ELSE None]],
       [cls |-> "M",
        e |-> [e EXCEPT !.proj = IF @ = {} THEN {<<"q">>} ELSE {}]],
       [cls |-> "M",
        e |-> [e EXCEPT !.vals = Property_store_value(@, "q",
                                   IF q = None THEN PyInt(1) ELSE None)]],
       [cls |-> "M",
        e |-> [e EXCEPT !.vals = [n \in (DOMAIN @) \ {"p"} |-> @[n]]]]}

\* an == that looks at the class and the key only
Model_eq_keys_only(e, other, order) ==
  [err |-> "", vals |-> e.vals,
   ret |-> Py("bool", other.cls = "M" /\ e.key = other.e.key)]

\* e == other.e for e of class M: Model.__eq__ and Model._equivalent, the
\* names compared in the given order; a class that is not M makes __eq__
\* return NotImplemented on both sides, and == is then False for two
\* objects.  vals is what reading the properties leaves in e._values.
Model_eq(e, other, order) ==
  LET give(b, vals) == [err |-> "", ret |-> Py("bool", b), vals |-> vals]
      differ(a, b) ==
        IF a.t = "ent" /\ b.t = "ent"
        THEN UserValues("B", a.v) # UserValues("B", b.v)
        ELSE ~PyEq(a, b)
      names == IF e.proj # {} THEN {n[1] : n \in e.proj} ELSE {"p", "q"}
      r1 == GetValue(e, order[1])
      r2 == GetValue([e EXCEPT !.vals = r1.vals], order[2])
  IN  IF other.cls # "M" THEN give(FALSE, e.vals)
      ELSE IF e.key # other.e.key THEN give(FALSE, e.vals)
      ELSE IF e.proj # other.e.proj THEN give(FALSE, e.vals)
      ELSE IF differ(r1.ret, GetValue(other.e, order[1]).ret)
      THEN give(FALSE, r1.vals)
      ELSE IF Len(order) = 1 THEN give(TRUE, r1.vals)
      ELSE give(~differ(r2.ret, GetValue(other.e, order[2]).ret), r2.vals)

\* a _to_dict in which a name in include passes whatever exclude holds
Model_to_dict_include_wins(e, include, exclude) ==
  LET passes(n) == IF include # None THEN n \in include.v
                   ELSE exclude = None \/ n \notin exclude.v
      rp == GetValue(e, "p")
      rq == GetValue(e, "q")
  IN  IF include # None /\ include.t # "set"
      THEN [err |-> "TypeError", ret |-> None, vals |-> e.vals]
      ELSE
      [err |-> "", vals |-> IF passes("p") THEN rp.vals ELSE e.vals,
       ret |-> Py("dict",
                  [n \in {k \in {"p", "q"} :
                            passes(k) /\ (IF k = "p" THEN rp ELSE rq).err = ""}
                     |-> (IF n = "p" THEN rp ELSE rq).ret])]

\* entity._to_dict(include=include, exclude=exclude) for an entity of class
\* M: the dict, keyed by code name, of prop._get_for_dict(entity) of the
\* properties that pass the filters, an UnprojectedPropertyError skipping
\* the property; a structured value is given as its own _to_dict()
Model_to_dict(e, include, exclude) ==
  LET collection(x) == x = None \/ x.t = "set"
      passes(n) == /\ include = None \/ n \in include.v
                   /\ exclude = None \/ n \notin exclude.v
      sub(prop, x) ==
        IF x.t = "ent" THEN Py("dict", UserValues(prop.model, x.v)) ELSE x
      for_dict(prop, x) ==
        IF prop.kind # "structured" THEN x
        ELSE IF prop.repeated
        THEN PyList([i \in 1..Len(x.v) |-> sub(prop, x.v[i])])
        ELSE sub(prop, x)
      rp == GetValue(e, "p")
      e1 == IF passes("p") THEN [e EXCEPT !.vals = rp.vals] ELSE e
      rq == GetValue(e1, "q")
      e2 == IF passes("q") THEN [e1 EXCEPT !.vals = rq.vals] ELSE e1
      read(n) == IF n = "p" THEN rp ELSE rq
      raised(n) ==
        passes(n) /\ read(n).err \notin {"", "UnprojectedPropertyError"}
  IN  IF ~collection(include) \/ ~collection(exclude)
      THEN [err |-> "TypeError", ret |-> None, vals |-> e.vals]
      ELSE IF raised("p") THEN [err |-> rp.err, ret |-> None, vals |-> e.vals]
      ELSE IF raised("q") THEN [err |-> rq.err, ret |-> None, vals |-> e1.vals]
      ELSE [err |-> "", vals |-> e2.vals,
            ret |-> Py("dict",
                       [n \in {k \in {"p", "q"} :
                                 passes(k) /\ read(k).err = ""}
                          |-> for_dict(Schema["M"][n], read(n).ret)])]

\* entity._to_dict(include=include, exclude=exclude)
MToDict(include, exclude) ==
  LET r == Model_to_dict(m, include, exclude)
  IN  /\ m' = [m EXCEPT !.vals = r.vals]
      /\ out' = Result("to_dict", "",
                       [include |-> include, exclude |-> exclude], r)
      /\ UNCHANGED cfg

\* the loop of Model._set_attributes over the keywords in the order the
\* dict delivers them, from the k-th on: getattr(cls, name) raises
\* AttributeError for a name the class does not have, then
\* prop._set_value(self, value)
RECURSIVE Model_set_attributes(_, _, _, _)
Model_set_attributes(e, kwds, order, k) ==
  IF k > Len(order) THEN [err |-> "", ret |-> None, vals |-> e.vals]
  ELSE IF order[k] \notin {"p", "q"}
  THEN [err |-> "AttributeError", ret |-> None, vals |-> e.vals]
  ELSE LET r == SetValue(Schema["M"][order[k]], e, order[k], kwds[order[k]])
       IN  IF r.err # "" THEN [err |-> r.err, ret |-> None, vals |-> e.vals]
           ELSE Model_set_attributes([e EXCEPT !.vals = r.vals], kwds, order,
                                     k + 1)

\* entity.populate(**kwds)
MPopulate(kwds, order) ==
  LET r == Model_set_attributes(m, kwds, order, 1)
  IN  /\ order \in Orders(DOMAIN kwds)
      /\ m' = [m EXCEPT !.vals = r.vals]
      /\ out' = Result("populate", "", kwds, r)
      /\ UNCHANGED cfg

\* entity == other
MEq(other, order) ==
  LET r == Model_eq(m, other, order)
  IN  /\ order \in Orders(IF m.proj # {} THEN {n[1] : n \in m.proj}
                           ELSE {"p", "q"})
      /\ m' = [m EXCEPT !.vals = r.vals]
      /\ out' = Result("eq", "", other, r)
      /\ UNCHANGED cfg

\* hash(entity): Model.__hash__
MHash ==
  /\ out' = Result("hash", "", None, [err |-> "TypeError", ret |-> None])
  /\ UNCHANGED <<cfg, m>>

QueryNext ==
  /\ UNCHANGED <<ctrVars, deserVars, rtVars, clsVars, hookVars, handed, decVars>>
  /\ \/ \E name \in {"p", "q"} :
          \E v \in InputValues(name) : MSetValue("set", name, v)
     \/ MSetKey("set", Keywords["key"])
     \/ \E projection \in SUBSET {<<"p">>, <<"q">>} : MSetProjection(projection)
     \/ \E other \in Others(m) :
          \E order \in Orders({"p"}) \cup Orders({"q"}) \cup Orders({"p", "q"}) :
            MEq(other, order)
     \/ MHash
     \/ \E include \in {None, Py("set", {"p"}), Py("set", {"p", "q"}),
                         Py("str", "p")} :
          \E exclude \in {None, Py("set", {"p"}), Py("set", {"q"})} :
            MToDict(include, exclude)
     \/ \E kwds \in [{"p", "q"} -> {PyInt(1), Py("str", "a")}]
                     \cup [{"q", "nope"} -> {PyInt(1)}] :
          \E order \in Orders(DOMAIN kwds) : MPopulate(kwds, order)

SpecQuery == Init /\ [][QueryNext]_vars

\* the value entity.<name> reads as when the projection is left aside
ReadValue(e, name) == GetValue([e EXCEPT !.proj = {}], name).ret

\* C16 as stated: x == y exactly when y is of x's class, the keys are
\* equal and every declared property reads equal in both; and hash(x)
\* raises TypeError.
C16_EqualIffKeyAndValues ==
  [][/\ out'.op = "eq"
          => LET y == out'.arg
             IN  out'.ret.v <=>
                   /\ y.cls = "M"
                   /\ m.key = y.e.key
                   /\ \A n \in {"p", "q"} :
                        PyEq(ReadValue(m, n), ReadValue(y.e, n))
     /\ out'.op = "hash" => out'.err = "TypeError"]_vars

\* C16: x == y exactly when y is of x's class, the keys are equal, the
\* projections hold the same names, and every declared property (on
\* projection entities: every projected property) reads equal in both;
\* and hash(x) raises TypeError.
C16_EqualIffKeyProjectionAndValues ==
  [][/\ out'.op = "eq"
          => LET y == out'.arg
                 names == IF m.proj = {} THEN {"p", "q"}
                          ELSE {n[1] : n \in m.proj}
             IN  /\ out'.err = ""
                 /\ out'.ret.v <=>
                      /\ y.cls = "M"
                      /\ m.key = y.e.key
                      /\ m.proj = y.e.proj
                      /\ \A n \in names :
                           PyEq(GetValue(m, n).ret, GetValue(y.e, n).ret)
     /\ out'.op = "hash" => out'.err = "TypeError" /\ m' = m]_vars

\* two entities with the same key that differ in q only compared unequal
C16_Witness ==
  /\ out.op = "eq" /\ out.ret = Py("bool", FALSE)
  /\ out.arg.cls = "M"
  /\ out.arg.e.key = m.key /\ m.key # None
  /\ out.arg.e.proj = m.proj
  /\ PyEq(ReadValue(m, "p"), ReadValue(out.arg.e, "p"))
  /\ ~PyEq(ReadValue(m, "q"), ReadValue(out.arg.e, "q"))

RECURSIVE ContainsRepeated(_)
ContainsRepeated(c) ==
  \E a \in DOMAIN classes[c].attrs :
    LET prop == props[classes[c].attrs[a]]
    IN  \/ prop.repeated
        \/ prop.kind = "structured" /\ ContainsRepeated(prop.model)

\* C18: StructuredProperty(M, repeated=True) raises TypeError, and makes no
\* property, whenever M contains a repeated property directly or through
\* nested structured properties; so no repeated structured property there
\* is has a model class that contains a repeated property; and a class is
\* flagged _has_repeated whenever it declares a repeated property or a
\* structured property whose model class is flagged.
C18_OneRepeatedLevel ==
  /\ [][\A a \in PropertyArgs :
          /\ NewProperty(a[1], a[2], a[3], a[4])
          /\ a[1] = "structured" /\ a[2]
          /\ ContainsRepeated(a[3])
          => clsOut'.err = "TypeError" /\ props' = props]_vars
  /\ [](/\ \A i \in 1..Len(props) :
            props[i].kind = "structured" /\ props[i].repeated
              => ~ContainsRepeated(props[i].model)
        /\ \A c \in DOMAIN classes :
            (\E a \in DOMAIN classes[c].attrs :
               LET prop == props[classes[c].attrs[a]]
               IN  \/ prop.repeated
                   \/ /\ prop.kind = "structured"
                      /\ classes[prop.model].has_repeated)
              => classes[c].has_repeated)

\* class B holds A, which holds a repeated property, in a structured
\* property that is not repeated, and StructuredProperty(B, repeated=True)
\* was refused
C18_Witness ==
  /\ clsOut = [op |-> "property", err |-> "TypeError"]
  /\ "B" \in DOMAIN classes
  /\ \E a \in DOMAIN classes["B"].attrs :
       LET prop == props[classes["B"].attrs[a]]
       IN  prop.kind = "structured" /\ ~prop.repeated /\ prop.model = "A"
  /\ \A a \in DOMAIN classes["B"].attrs :
       ~props[classes["B"].attrs[a]].repeated
  /\ \A i \in 1..Len(props) : props[i].model # "B"

(***************************************************************************)
(* SpecInst: entities of a model class receive fields and dynamic          *)
(* attributes (core_model.py Model._get_property_for, _clone_properties,   *)
(* _fake_property, Expando.__setattr__, Expando.__delattr__).  The entity  *)
(* is inst: its class, whether its _properties is still the class's own    *)
(* dict (shared), the dict it holds once cloned (own), and the names that  *)
(* hold a value in _values.                                                *)
(***************************************************************************)
\* the field and attribute names used on the entity: an attribute of the
\* class, a name no class declares, and the name given to IntegerProperty
InstNames == {"x", "y", "z"}

\* self._properties
InstProperties(i) == IF i.shared THEN classes[i.cls].properties ELSE i.own

\* Model._clone_properties
Clone_properties(i) ==
  IF i.shared
  THEN [i EXCEPT !.shared = FALSE, !.own = classes[i.cls].properties]
  ELSE i

\* GenericProperty(name) made for an entity, with prop._code_name = name
GenericProperty(name) ==
  [kind |-> "generic", repeated |-> FALSE, model |-> "", name |-> name,
   code_name |-> name, creation_counter |-> counter + 1]

\* ent = cls()
NewInstance(c) ==
  /\ c \in DOMAIN classes
  /\ inst' = [cls |-> c, shared |-> TRUE, own |-> [n \in {} |-> 0],
              values |-> {}]
  /\ clsOut' = [op |-> "instance", err |-> ""]
  /\ UNCHANGED <<props, counter, classes>>

\* the step of Model._from_pb for one field with the top-level name
\* <name>: _get_property_for, which makes an orphan property through
\* _fake_property when the entity's _properties has no such name, then
\* that property's _deserialize
GetPropertyFor(name) ==
  /\ inst # None
  /\ IF name \in DOMAIN InstProperties(inst)
     THEN /\ inst' = [inst EXCEPT !.values = @ \cup {name}]
          /\ UNCHANGED <<props, counter>>
     ELSE /\ counter < MaxProps
          /\ counter' = counter + 1
          /\ props' = Append(props, GenericProperty(name))
          /\ inst' = [Clone_properties(inst) EXCEPT
                        !.own = (name :> Len(props) + 1) @@ @,
                        !.values = @ \cup {name}]
  /\ clsOut' = [op |-> "deserialize", err |-> ""]
  /\ UNCHANGED classes

\* ent.<name> = 1 on an entity of an Expando class: Expando.__setattr__
Expando_setattr(name) ==
  /\ inst # None /\ classes[inst.cls].expando
  /\ IF name \in DOMAIN classes[inst.cls].attrs
     THEN /\ inst' = [inst EXCEPT !.values =
                        @ \cup {props[classes[inst.cls].attrs[name]].name}]
          /\ UNCHANGED <<props, counter>>
     ELSE /\ counter < MaxProps
          /\ counter' = counter + 1
          /\ props' = Append(props, GenericProperty(name))
          /\ inst' = [Clone_properties(inst) EXCEPT
                        !.own = (name :> Len(props) + 1) @@ @,
                        !.values = @ \cup {name}]
  /\ clsOut' = [op |-> "setattr", err |-> ""]
  /\ UNCHANGED classes

\* del ent.<name> on an entity of an Expando class: Expando.__delattr__.
\* 'prop in self.__class__._properties' looks a Property up among the
\* names that are the dict's keys and is False; the del acts on
\* self._properties, which is the class's dict until the entity has
\* cloned it.
Expando_delattr(name) ==
  LET without(map) == [n \in (DOMAIN map) \ {name} |-> map[n]]
  IN  /\ inst # None /\ classes[inst.cls].expando
      /\ IF name \in DOMAIN classes[inst.cls].attrs
         THEN /\ inst' = [inst EXCEPT !.values =
                            @ \ {props[classes[inst.cls].attrs[name]].name}]
              /\ clsOut' = [op |-> "delattr", err |-> ""]
              /\ UNCHANGED classes
         ELSE IF name \notin DOMAIN InstProperties(inst)
         THEN /\ clsOut' = [op |-> "delattr", err |-> "TypeError"]
              /\ UNCHANGED <<inst, classes>>
         ELSE /\ clsOut' = [op |-> "delattr", err |-> ""]
              /\ IF inst.shared
                 THEN /\ classes' = [classes EXCEPT ![inst.cls].properties =
                                       without(@)]
                      /\ inst' = [inst EXCEPT !.values = @ \ {name}]
                 ELSE /\ inst' = [inst EXCEPT !.own = without(@),
                                              !.values = @ \ {name}]
                      /\ UNCHANGED classes
      /\ UNCHANGED <<props, counter>>

\* IntegerProperty() and IntegerProperty('z'); class A(Model) and
\* class A(Expando), with no property or with x; entities of A
InstNext ==
  /\ UNCHANGED <<ctrVars, deserVars, rtVars, propVars, hookVars, handed, decVars>>
  /\ \/ \E name \in {"", "z"} : NewProperty("integer", FALSE, "", name)
     \/ \E base \in {"Model", "Expando"}, D \in SUBSET {"x"} :
          \E attrs \in [D -> 1..Len(props)], order \in Orders(D) :
            DefineClass("A", base, attrs, order)
     \/ \E c \in ClassNames : NewInstance(c)
     \/ \E name \in InstNames : GetPropertyFor(name)
     \/ \E name \in InstNames : Expando_setattr(name)
     \/ \E name \in InstNames : Expando_delattr(name)

SpecInst == CtrInit /\ [][InstNext]_vars

\* C19: no operation on an entity (a field deserialized, a dynamic
\* attribute assigned or deleted) changes the property map of the
\* entity's class or an existing property instance; a field that the
\* entity's map does not hold ends in the entity's own cloned map; and
\* deserializing a field never raises.
C19_ClassMapUntouched ==
  [][clsOut'.op \in {"deserialize", "setattr", "delattr"}
       => /\ classes' = classes
          /\ \A i \in 1..Len(props) : props'[i] = props[i]
          /\ clsOut'.op = "deserialize" => clsOut'.err = ""
          /\ Len(props') > Len(props)
               => ~inst'.shared /\ Len(props') \in
                    {inst'.own[n] : n \in DOMAIN inst'.own}]_vars

(***************************************************************************)
(* Further properties of SpecCounter and SpecDeser.                        *)
(***************************************************************************)
\* C27: over every get and increment call, on whatever path, the value
\* get(path) returns does not decrease for any path, and get returns a
\* value (every parent node has a child).
C27_GetNeverDecreases ==
  [][/\ \A p \in CtrPaths :
          /\ ~NodeGetFails(Touch(ctr', p), p)
          /\ NestedCounter_get(ctr', p).val >= NestedCounter_get(ctr, p).val]_vars

\* C26: after each field of the repeated structured property is processed,
\* the counter at the field's path is 1 plus the index of the sub-entity
\* that received the field, and no counter exceeds the number of
\* sub-entities there are; a sub-entity that was appended is the last one.
C26_CounterPointsAtSubentity ==
  [][LET f == wire'[Len(wire')]
     IN  /\ dlast'.idx >= 0
         /\ NestedCounter_get(ctr', f.name).val = dlast'.idx + 1
         /\ \A p \in DOMAIN ctr' :
              NodeGet(ctr', p) <= Len(SubEntities(ent'))
         /\ dlast'.appended
              => /\ dlast'.idx = Len(SubEntities(ent))
                 /\ Len(SubEntities(ent')) = Len(SubEntities(ent)) + 1]_vars

\* a field went to the second sub-entity, which was there already, after
\* the counter at its path had been advanced to it
C26_Witness ==
  /\ dlast.idx = 1 /\ ~dlast.appended
  /\ Len(SubEntities(ent)) >= 2
  /\ NestedCounter_get(ctr, wire[Len(wire)].name).val = 2

(***************************************************************************)
(* Further properties of SpecQuery.                                        *)
(***************************************************************************)
\* C22: a populate(**kwds) with several keywords that raises leaves the
\* entity's values as they were before the call.
C22_FailedPopulateChangesNothing ==
  [][out'.op = "populate" /\ out'.name = "" /\ out'.err # "" => m' = m]_vars

(***************************************************************************)
(* SpecAccess: the values of an entity of class M are set, read as user    *)
(* values (_get_value) and as storage values (_get_base_value), deleted    *)
(* and prepared for a put, in any order, while the caller keeps the list   *)
(* the last read of a repeated p returned and may append to it.  The       *)
(* entity has no projection.  A datetime is the number of its instant; the *)
(* caller assigns the instant 0 and the clock gives 1..MaxTime.            *)
(***************************************************************************)
\* the instants the clock gives
MaxTime == 2
\* the longest list the caller makes by appending
MaxLen == 2

\* the declarations of p
AccessConfigs ==
  {[IntegerProperty EXCEPT !.default = d] : d \in {None, PyInt(1)}}
  \cup {[Property(k) EXCEPT !.repeated = r] :
          k \in {"integer", "generic"}, r \in BOOLEAN}
  \cup {StructuredProperty("B", r) : r \in BOOLEAN}
  \cup {[Property("computed") EXCEPT !.func = "const", !.repeated = r] :
          r \in BOOLEAN}
  \cup {[Property("computed") EXCEPT !.func = "q"]}
  \cup {[Property("datetime") EXCEPT !.auto_now = a, !.auto_now_add = b] :
          a, b \in BOOLEAN}
  \cup {[Property("datetime") EXCEPT !.auto_now_add = TRUE,
                                     !.default = Py("datetime", 0)]}

\* the values assigned to p
AccessValues ==
  {None, PyInt(1), PyInt(-1), Py("datetime", 0), Entity([c |-> PyInt(1)]),
   PyList(<< >>), PyList(<<PyInt(1)>>), PyList(<<None>>),
   PyList(<<Entity([c |-> PyInt(1)])>>)}

\* a _get_base_value that wraps None and lists as it wraps other values
GetBaseValue_unasserted(e, name) ==
  LET prop  == Schema["M"][name]
      value == Property_retrieve_value(e.vals, name, prop.default)
      wrap(x) == IF x.t = "base" THEN x ELSE BaseValue(x)
      lst   == PyList([i \in 1..Len(value.v) |-> wrap(value.v[i])])
  IN  IF prop.repeated /\ value.t = "none"
      THEN [err |-> "", ret |-> PyList(<< >>),
            vals |-> Property_store_value(e.vals, name, PyList(<< >>))]
      ELSE IF prop.repeated
      THEN [err |-> "", ret |-> lst,
            vals |-> Property_store_value(e.vals, name, lst)]
      ELSE IF value.t = "none"
      THEN [err |-> "", ret |-> None, vals |-> e.vals]
      ELSE [err |-> "", ret |-> wrap(value),
            vals |-> Property_store_value(e.vals, name, wrap(value))]

\* prop._get_base_value(entity): _apply_to_values with
\* _opt_call_to_base_type, which leaves a _BaseValue alone and wraps any
\* other value; _BaseValue.__init__ asserts that the value is neither None
\* nor a list.  A list is converted item by item before the stored list is
\* touched; a value that is retrieved as the default is stored once
\* wrapped.
GetBaseValue(e, name) ==
  LET prop  == Schema["M"][name]
      value == Property_retrieve_value(e.vals, name, prop.default)
      wrap(x) == IF x.t = "base" THEN x ELSE BaseValue(x)
      asserts(x) == x.t \in {"none", "list"}
      lst   == PyList([i \in 1..Len(value.v) |-> wrap(value.v[i])])
      raise == [err |-> "AssertionError", ret |-> None, vals |-> e.vals]
  IN  IF prop.repeated /\ value.t = "none"
      THEN [err |-> "", ret |-> PyList(<< >>),
            vals |-> Property_store_value(e.vals, name, PyList(<< >>))]
      ELSE IF prop.repeated
      THEN IF \E i \in 1..Len(value.v) : asserts(value.v[i]) THEN raise
           ELSE [err |-> "", ret |-> lst,
                 vals |-> Property_store_value(e.vals, name, lst)]
      ELSE IF value.t = "none"
      THEN [err |-> "", ret |-> None, vals |-> e.vals]
      ELSE IF asserts(value) THEN raise
      ELSE [err |-> "", ret |-> wrap(value),
            vals |-> IF value.t = "base" THEN e.vals
                     ELSE Property_store_value(e.vals, name, wrap(value))]

\* a _prepare_for_put whose auto_now_add does not look at what is stored
PrepareForPut_always(e, now) ==
  IF cfg.kind = "datetime" /\ (cfg.auto_now \/ cfg.auto_now_add)
  THEN [err |-> "", ret |-> None,
        vals |-> Property_store_value(e.vals, "p", Py("datetime", now))]
  ELSE [err |-> "", ret |-> None, vals |-> e.vals]

\* Model._prepare_for_put: prop._prepare_for_put(self) for p, then for q
\* (an IntegerProperty, whose _prepare_for_put does nothing).  For p:
\* DateTimeProperty stores _now() under auto_now, and under auto_now_add
\* when the entity has no value; StructuredProperty goes through
\* _get_base_value (the sub-entities of class B have nothing to prepare);
\* ComputedProperty goes through _get_value.
PrepareForPut(e, now) ==
  LET keep == [err |-> "", ret |-> None, vals |-> e.vals]
      b == GetBaseValue(e, "p")
      g == GetValue(e, "p")
  IN  CASE cfg.kind = "datetime" ->
             IF \/ cfg.auto_now
                \/ cfg.auto_now_add /\ ~Property_has_value(e.vals, "p")
             THEN [keep EXCEPT !.vals = Property_store_value(
                                          e.vals, "p", Py("datetime", now))]
             ELSE keep
        [] cfg.kind = "structured" -> [b EXCEPT !.ret = None]
        [] cfg.kind = "computed" -> [g EXCEPT !.ret = None]
        [] OTHER -> keep

\* the caller's list after a call that left the entity with vals: still
\* the stored list, whose items the call may have converted in place, or
\* cut off from the entity when the call stored another list or removed it
Handed(vals, replaced) ==
  IF ~handed.has \/ ~handed.alias THEN handed
  ELSE IF replaced \/ "p" \notin DOMAIN vals
  THEN [handed EXCEPT !.alias = FALSE]
  ELSE [handed EXCEPT !.v = vals["p"].v]

\* entity.<name> = v
AccSet(name, v) ==
  LET r == SetValue(Schema["M"][name], m, name, v)
  IN  /\ m' = [m EXCEPT !.vals = r.vals]
      /\ out' = Result("set", name, v, [err |-> r.err, ret |-> None])
      /\ handed' = Handed(r.vals, name = "p" /\ r.err = "")

\* lst = entity.<name>: for a repeated p the list returned is the list the
\* entity stores (_apply_to_values returns the list it converted in place,
\* or the new list it stored)
AccGet(name) ==
  LET r == GetValue(m, name)
  IN  /\ m' = [m EXCEPT !.vals = r.vals]
      /\ out' = Result("get", name, None, r)
      /\ handed' = IF name = "p" /\ cfg.repeated /\ r.err = ""
                   THEN [has |-> TRUE, alias |-> TRUE, v |-> r.ret.v]
                   ELSE handed

\* prop._get_base_value(entity), as serialization calls it
AccGetBase(name) ==
  LET r == GetBaseValue(m, name)
  IN  /\ m' = [m EXCEPT !.vals = r.vals]
      /\ out' = Result("get_base", name, None, r)
      /\ handed' = Handed(r.vals, FALSE)

\* del entity.<name>
AccDelete(name) ==
  LET r == DeleteValue(Schema["M"][name], m, name)
  IN  /\ m' = [m EXCEPT !.vals = r.vals]
      /\ out' = Result("delete", name, None, [err |-> r.err, ret |-> None])
      /\ handed' = Handed(r.vals, name = "p" /\ r.err = "")

\* entity._prepare_for_put() at the instant now
AccPrepareForPut(now) ==
  LET r == PrepareForPut(m, now)
  IN  /\ m' = [m EXCEPT !.vals = r.vals]
      /\ out' = Result("put", "", Py("datetime", now), r)
      /\ handed' = Handed(r.vals, cfg.kind = "computed")

\* lst.append(x) on the list the caller holds
CallerAppend(x) ==
  /\ handed.has /\ Len(handed.v) < MaxLen
  /\ handed' = [handed EXCEPT !.v = Append(@, x)]
  /\ m' = IF handed.alias
          THEN [m EXCEPT !.vals["p"] = PyList(Append(handed.v, x))]
          ELSE m
  /\ out' = Result("append", "", x, [err |-> "", ret |-> None])

AccessInit ==
  /\ CtrIdle /\ DeserIdle /\ RtIdle /\ ClsIdle /\ HookIdle /\ RestIdle
  /\ cfg \in AccessConfigs
  /\ m = NewEntity
  /\ out = NoCall

AccessNext ==
  /\ UNCHANGED <<cfg, ctrVars, deserVars, rtVars, clsVars, hookVars, decVars>>
  /\ \/ \E v \in AccessValues : AccSet("p", v)
     \/ \E v \in InputValues("q") : AccSet("q", v)
     \/ \E name \in {"p", "q"} : AccGet(name)
     \/ \E name \in {"p", "q"} : AccGetBase(name)
     \/ \E name \in {"p", "q"} : AccDelete(name)
     \/ \E now \in 1..MaxTime : AccPrepareForPut(now)
     \/ CallerAppend(Py("str", "a"))

SpecAccess == AccessInit /\ [][AccessNext]_vars

\* C21: on a DateTimeProperty, over any sequence of assignments, reads and
\* _prepare_for_put calls: with auto_now every _prepare_for_put stores the
\* current time; with auto_now_add alone it stores the current time when
\* the property has no stored value and otherwise leaves what is stored (a
\* value the user assigned, or the time an earlier _prepare_for_put
\* stored) as it is; with neither it stores nothing.
C21_AutoNowAddKeepsAutoNowOverwrites ==
  [][out'.op = "put" /\ cfg.kind = "datetime"
       => /\ out'.err = ""
          /\ IF cfg.auto_now \/ (cfg.auto_now_add /\ "p" \notin DOMAIN m.vals)
             THEN m'.vals = Property_store_value(m.vals, "p", out'.arg)
             ELSE m'.vals = m.vals]_vars

\* under auto_now_add alone a second _prepare_for_put, at the instant 2,
\* left the instant 1 that the first had stored
C21_Witness ==
  /\ cfg.kind = "datetime" /\ cfg.auto_now_add /\ ~cfg.auto_now
  /\ out.op = "put" /\ out.arg = Py("datetime", 2)
  /\ "p" \in DOMAIN m.vals /\ m.vals["p"] = Py("datetime", 1)

\* the step is a read of a property that returned
Reads == out'.op \in {"get", "get_base"} /\ out'.err = ""

\* the values the entity stores for the property: the items of a list, or
\* the one value
StoredItems(vals, name) ==
  IF name \notin DOMAIN vals THEN {}
  ELSE IF vals[name].t = "list"
  THEN {vals[name].v[i] : i \in 1..Len(vals[name].v)}
  ELSE {vals[name]}

\* C23: the list _get_value returned for a repeated property is the
\* caller's own: no later call places a storage wrapper in it, and what the
\* caller appends to it does not reach what the entity stores.
C23_ReturnedListNotAliased ==
  /\ [](handed.has => \A i \in 1..Len(handed.v) : handed.v[i].t # "base")
  /\ [][out'.op = "append" => m' = m]_vars

C25_DeletedReadsNone ==
  [][out'.op = "delete" /\ out'.err = ""
       => /\ out'.name \notin DOMAIN m.vals => m'.vals = m.vals
          /\ out'.name \notin DOMAIN m'.vals
          /\ GetValue(m', out'.name).ret =
               IF Schema["M"][out'.name].repeated THEN PyList(<< >>)
               ELSE None]_vars

\* C28: a read leaves _has_value of every property as it was.
C28_ReadsKeepHasValue ==
  [][out'.op \in {"get", "get_base"}
       => \A n \in {"p", "q"} :
            Property_has_value(m'.vals, n) <=> Property_has_value(m.vals, n)]_vars

\* C29: once _set_value has accepted a list for a repeated property,
\* _get_base_value on the entity returns.
C29_AcceptedListConverts ==
  [][out'.op = "set" /\ out'.name = "p" /\ out'.err = "" /\ cfg.repeated
       => GetBaseValue(m', "p").err = ""]_vars

(***************************************************************************)
(* SpecDecoder: the Decoder of key_utils.py, reading a byte buffer.        *)
(*                                                                         *)
(* dec is the decoder (buf, idx, limit); decOut is the last call and its   *)
(* error.  idx counts from 0 as in the code; buf[i] of the code is         *)
(* dec.buf[i + 1].  A varint of up to ten bytes holds up to 70 bits; it is *)
(* kept as its sequence of 7-bit groups, lowest first, and the tests of    *)
(* the code against 2^64, 2^63 and 2^31 are made on the groups.            *)
(***************************************************************************)
MaxPieces == 3

\* the turns of skipData's loops after which a call is given up as one
\* that does not return
MaxTurns == 12

\* the ten bytes that encode -1 as a varint (ff x 9, 01)
NegOne == <<255, 255, 255, 255, 255, 255, 255, 255, 255, 1>>

\* the ten bytes that encode -12
NegTwelve == <<244, 255, 255, 255, 255, 255, 255, 255, 255, 1>>

\* buffers are made of these: single bytes that are small numbers, lengths
\* and tags (10 = STRING of field 1, 11 = STARTGROUP, 12 = ENDGROUP,
\* 4 = ENDGROUP of field 0), a two-byte varint (128), an unfinished varint
\* and negative numbers
Pieces == {<<0>>, <<1>>, <<2>>, <<4>>, <<10>>, <<11>>, <<12>>, <<128, 1>>,
           <<255>>, NegOne, NegTwelve}

RECURSIVE Concat(_)
Concat(ss) == IF ss = << >> THEN << >> ELSE Head(ss) \o Concat(Tail(ss))

Buffers ==
  {Concat(ps) : ps \in UNION {[1..n -> Pieces] : n \in 0..MaxPieces}}

Encoder_NUMERIC == 0
Encoder_DOUBLE == 1
Encoder_STRING == 2
Encoder_STARTGROUP == 3
Encoder_ENDGROUP == 4
Encoder_FLOAT == 5

DecResult(d, err, ret) == [d |-> d, err |-> err, ret |-> ret]

\* skip(n): raises when idx + n > limit, else idx += n
Decoder_skip(d, n) ==
  IF d.idx + n > d.limit THEN DecResult(d, "truncated", 0)
  ELSE DecResult([d EXCEPT !.idx = @ + n], "", 0)

\* buf[i] as Python reads it: a negative i counts from the end, and an i
\* before the start is an IndexError (i < limit <= len(buf) where it is
\* read)
InRange(d, i) == i >= 0 - Len(d.buf)

BufAt(d, i) == IF i < 0 THEN d.buf[i + Len(d.buf) + 1] ELSE d.buf[i + 1]

Decoder_get8(d) ==
  IF d.idx >= d.limit THEN DecResult(d, "truncated", 0)
  ELSE IF ~InRange(d, d.idx) THEN DecResult(d, "IndexError", 0)
  ELSE DecResult([d EXCEPT !.idx = @ + 1], "", BufAt(d, d.idx))

\* get16, get32, get64: n bytes read one by one, then idx += n (the value,
\* wider than the model's integers, is not kept)
Decoder_getFixed(d, n) ==
  IF d.idx + n > d.limit THEN DecResult(d, "truncated", 0)
  ELSE IF ~InRange(d, d.idx) THEN DecResult(d, "IndexError", 0)
  ELSE DecResult([d EXCEPT !.idx = @ + n], "", 0)

\* the length of the slice buf[i:j]
SliceLen(d, i, j) ==
  LET len == Len(d.buf)
      clip(k) == IF k < 0 THEN (IF k + len < 0 THEN 0 ELSE k + len)
                 ELSE IF k > len THEN len ELSE k
  IN  IF clip(j) > clip(i) THEN clip(j) - clip(i) ELSE 0

\* getFloat, getDouble: a slice of n bytes, idx += n, then struct.unpack,
\* which raises when the slice is short
Decoder_getFloat(d, n) ==
  IF d.idx + n > d.limit THEN DecResult(d, "truncated", 0)
  ELSE DecResult([d EXCEPT !.idx = @ + n],
                 IF SliceLen(d, d.idx, d.idx + n) = n THEN ""
                 ELSE "struct.error", 0)

\* the loop shared by getVarInt32 and getVarUint64, entered with byte b
\* read and the groups gathered before it: result |= (b & 127) << shift;
\* the last byte ends it ("corrupted" when result >= 2^64, which is group
\* ten >= 2); a tenth byte that continues is "corrupted" (shift >= 64)
RECURSIVE VarLoop(_, _, _)
VarLoop(d, b, groups) ==
  LET gs == Append(groups, b % 128)
  IN  IF b < 128
      THEN IF Len(gs) = 10 /\ gs[10] >= 2
           THEN DecResult(d, "corrupted", gs)
           ELSE DecResult(d, "", gs)
      ELSE IF 7 * Len(gs) >= 64
      THEN DecResult(d, "corrupted", gs)
      ELSE LET r == Decoder_get8(d)
           IN  IF r.err # "" THEN DecResult(r.d, r.err, gs)
               ELSE VarLoop(r.d, r.ret, gs)

\* group i of a result, 0 beyond its last group
Group(gs, i) == IF i <= Len(gs) THEN gs[i] ELSE 0

\* bits 0..30 of the result
Low31(gs) ==
  Group(gs, 1) + 128 * Group(gs, 2) + 16384 * Group(gs, 3)
    + 2097152 * Group(gs, 4) + 268435456 * (Group(gs, 5) % 8)

\* getVarInt32: a result with bit 63 set is taken as negative (result -
\* 2^64); outside [-2^31, 2^31) it is "corrupted".  Bit 63 is group ten,
\* bits 31..62 are the high four bits of group five and groups six to nine.
Decoder_getVarInt32(d) ==
  LET b == Decoder_get8(d)
  IN  IF b.err # "" THEN b
      ELSE IF b.ret < 128 THEN b
      ELSE
        LET r == VarLoop(b.d, b.ret, << >>)
            gs == r.ret
            negative == Group(gs, 10) = 1
            highZero == Group(gs, 5) < 8
                        /\ \A i \in 6..10 : Group(gs, i) = 0
            highOnes == Group(gs, 5) >= 120
                        /\ \A i \in 6..9 : Group(gs, i) = 127
        IN  IF r.err # "" THEN DecResult(r.d, r.err, 0)
            ELSE IF negative
            THEN IF highOnes
                 THEN DecResult(r.d, "",
                                (Low31(gs) - 1073741824) - 1073741824)
                 ELSE DecResult(r.d, "corrupted", 0)
            ELSE IF highZero THEN DecResult(r.d, "", Low31(gs))
            ELSE DecResult(r.d, "corrupted", 0)

\* getVarInt64 / getVarUint64: the same bytes are read (the 64-bit value
\* is not kept)
Decoder_getVarInt64(d) ==
  LET b == Decoder_get8(d)
  IN  IF b.err # "" THEN b
      ELSE LET r == VarLoop(b.d, b.ret, << >>)
           IN  DecResult(r.d, r.err, 0)

Decoder_getBoolean(d) ==
  LET b == Decoder_get8(d)
  IN  IF b.err = "" /\ b.ret \notin {0, 1} THEN DecResult(b.d, "corrupted", 0)
      ELSE b

\* getPrefixedString: the length is not tested against 0 (the string is
\* not kept)
Decoder_getPrefixedString(d) ==
  LET n == Decoder_getVarInt32(d)
  IN  IF n.err # "" THEN n
      ELSE IF n.d.idx + n.ret > n.d.limit
      THEN DecResult(n.d, "truncated", 0)
      ELSE DecResult([n.d EXCEPT !.idx = @ + n.ret], "", 0)

Decoder_getRawString(d) == DecResult([d EXCEPT !.idx = d.limit], "", 0)

\* skipData(tag), and the loop of its STARTGROUP branch.  A field with a
\* negative length moves idx back, so the loop may read the same bytes
\* again; a call that has taken MaxTurns turns is given up as one that
\* does not return ("unfinished", the decoder as the call found it).
RECURSIVE SkipData(_, _, _)
RECURSIVE SkipGroup(_, _, _)
SkipData(d, tag, turns) ==
  LET t == tag % 8
  IN  CASE t = Encoder_NUMERIC -> Decoder_getVarInt64(d)
        [] t = Encoder_DOUBLE -> Decoder_skip(d, 8)
        [] t = Encoder_STRING ->
             LET n == Decoder_getVarInt32(d)
             IN  IF n.err # "" THEN n ELSE Decoder_skip(n.d, n.ret)
        [] t = Encoder_STARTGROUP -> SkipGroup(d, tag, turns)
        [] t = Encoder_ENDGROUP -> DecResult(d, "corrupted", 0)
        [] t = Encoder_FLOAT -> Decoder_skip(d, 4)
        [] OTHER -> DecResult(d, "corrupted", 0)

SkipGroup(d, tag, turns) ==
  IF turns = 0 THEN DecResult(d, "unfinished", 0)
  ELSE
    LET t == Decoder_getVarInt32(d)
    IN  IF t.err # "" THEN t
        ELSE IF t.ret % 8 = Encoder_ENDGROUP
        THEN IF t.ret - Encoder_ENDGROUP # tag - Encoder_STARTGROUP
             THEN DecResult(t.d, "corrupted", 0)
             ELSE DecResult(t.d, "", 0)
        ELSE LET r == SkipData(t.d, t.ret, turns - 1)
             IN  IF r.err # "" THEN r ELSE SkipGroup(r.d, tag, turns - 1)

Decoder_skipData(d, tag) ==
  LET r == SkipData(d, tag, MaxTurns)
  IN  IF r.err = "unfinished" THEN DecResult(d, "unfinished", 0) ELSE r

DecStep(op, r) ==
  /\ dec' = r.d
  /\ decOut' = [op |-> op, err |-> r.err, ret |-> r.ret]
  /\ UNCHANGED <<ctrVars, deserVars, rtVars, propVars, clsVars, hookVars,
                 handed>>

DecSkip(n) == DecStep("skip", Decoder_skip(dec, n))

DecSkipData(tag) == DecStep("skipData", Decoder_skipData(dec, tag))

DecGet8 == DecStep("get8", Decoder_get8(dec))

DecGetFixed(n) == DecStep("getFixed", Decoder_getFixed(dec, n))

DecGetFloat(n) == DecStep("getFloat", Decoder_getFloat(dec, n))

DecGetVarInt32 == DecStep("getVarInt32", Decoder_getVarInt32(dec))

DecGetVarInt64 == DecStep("getVarInt64", Decoder_getVarInt64(dec))

DecGetBoolean == DecStep("getBoolean", Decoder_getBoolean(dec))

DecGetPrefixedString ==
  DecStep("getPrefixedString", Decoder_getPrefixedString(dec))

DecGetRawString == DecStep("getRawString", Decoder_getRawString(dec))

\* Decoder(buf, 0, limit) over the whole buffer or all but its last byte
DecoderInit ==
  /\ CtrIdle /\ DeserIdle /\ RtIdle /\ PropIdle /\ ClsIdle /\ HookIdle
  /\ handed = NoList
  /\ \E b \in Buffers : \E l \in {Len(b) - 1, Len(b)} :
       /\ l >= 0
       /\ dec = [buf |-> b, idx |-> 0, limit |-> l]
  /\ decOut = [op |-> "none", err |-> "", ret |-> 0]

DecoderNext ==
  \/ \E n \in {0, 1, 4} : DecSkip(n)
  \/ \E tag \in {0, 1, 2, 3, 4, 5, 6, 10, 11} : DecSkipData(tag)
  \/ DecGet8
  \/ \E n \in {2, 4, 8} : DecGetFixed(n)
  \/ \E n \in {4, 8} : DecGetFloat(n)
  \/ DecGetVarInt32
  \/ DecGetVarInt64
  \/ DecGetBoolean
  \/ DecGetPrefixedString
  \/ DecGetRawString

SpecDecoder == DecoderInit /\ [][DecoderNext]_vars

\* C30: the read position never decreases and never exceeds limit: a call
\* that would read past limit raises without moving idx past limit, and a
\* length prefix decoded as a negative number does not move idx backwards.
C30_IdxMonotoneWithinLimit ==
  /\ [](dec.idx <= dec.limit)
  /\ [][dec'.idx >= dec.idx]_vars

====
